---- MODULE Spec2Model ----
(***************************************************************************)
(* A model of the llm-auto tmux command runner: the relay adapter          *)
(* (receiver.py), TmuxTerminal.execute with its busy flag, the command     *)
(* sequencer (_execute_str / _execute_list), the execution policy, the     *)
(* result store, and the tmux session (pane, shell, wait-for channels).    *)
(*                                                                         *)
(* Text is modelled as a sequence of characters, a transcript as a        *)
(* sequence of lines.                                                      *)
(***************************************************************************)
EXTENDS Integers, Sequences, FiniteSets, TLC

(***************************************************************************)
(* Bounds of the model.                                                    *)
(***************************************************************************)
\* calls of TmuxTerminal.execute (relay requests or direct calls) over a run
MaxReq == 2
\* times a new TmuxTerminal is constructed for the session name
MaxAttach == 1
\* lines of a transcript whose content is chosen freely
MaxLines == 3
\* the line breaks tmux puts into one echoed command line
MaxCuts == 2
\* sequential commands in one transcript
MaxCmds == 2
\* lines the child process of a CommandExecutor writes
MaxWrites == 3
\* lines a pipe holds before the writer blocks
PipeCap == 1
\* the highest sequence number of the commands of one long batch
MaxSeq == 10
\* failed connection attempts and lost connections of the relay client
MaxFaults == 2
\* frames that arrive at the relay client
MaxFrames == 3
\* connections that are made to the relay server
MaxConns == 3
\* frames that the clients send to the relay server after their identity
MaxMsgs == 2

(***************************************************************************)
(* Python string helpers, on sequences of symbols.                         *)
(***************************************************************************)
Digits == <<"0", "1", "2", "3", "4", "5", "6", "7", "8", "9">>

IsDigit(c) == \E i \in 1..10 : Digits[i] = c

DigitVal(c) == (CHOOSE i \in 1..10 : Digits[i] = c) - 1

\* str.isspace for one symbol
IsSpace(c) == c \in {" ", "\n", "\t"}

RECURSIVE LStrip(_)
LStrip(s) == IF s # <<>> /\ IsSpace(Head(s)) THEN LStrip(Tail(s)) ELSE s

RECURSIVE RStrip(_)
RStrip(s) ==
    IF s # <<>> /\ IsSpace(s[Len(s)]) THEN RStrip(SubSeq(s, 1, Len(s) - 1)) ELSE s

\* str.strip()
Strip(s) == RStrip(LStrip(s))

\* str.startswith(p)
StartsWith(s, p) == Len(p) <= Len(s) /\ SubSeq(s, 1, Len(p)) = p

\* str.endswith(p)
EndsWith(s, p) == Len(p) <= Len(s) /\ SubSeq(s, Len(s) - Len(p) + 1, Len(s)) = p

\* p in s
Contains(s, p) ==
    \E i \in 1..(Len(s) - Len(p) + 1) : SubSeq(s, i, i + Len(p) - 1) = p

\* index of the first occurrence of p in s, 0 when there is none (str.find + 1)
Find(s, p) ==
    IF Contains(s, p)
    THEN CHOOSE i \in 1..(Len(s) - Len(p) + 1) :
            /\ SubSeq(s, i, i + Len(p) - 1) = p
            /\ \A j \in 1..(i - 1) : SubSeq(s, j, j + Len(p) - 1) # p
    ELSE 0

\* str.split(sep) for a one-symbol separator: the sequence of fields
RECURSIVE Split(_, _)
Split(s, sep) ==
    LET i == Find(s, <<sep>>)
    IN IF i = 0 THEN <<s>>
       ELSE <<SubSeq(s, 1, i - 1)>> \o Split(SubSeq(s, i + 1, Len(s)), sep)

RECURSIVE DigitsValue(_)
DigitsValue(s) ==
    IF s = <<>> THEN 0
    ELSE 10 * DigitsValue(SubSeq(s, 1, Len(s) - 1)) + DigitVal(s[Len(s)])

\* int(text): surrounding whitespace is ignored, one optional sign, then
\* one or more decimal digits; anything else raises ValueError (ok = FALSE)
ParseInt(text) ==
    LET t == Strip(text)
        signed == t # <<>> /\ Head(t) \in {"-", "+"}
        body == IF signed THEN Tail(t) ELSE t
        good == body # <<>> /\ \A i \in 1..Len(body) : IsDigit(body[i])
    IN IF good
       THEN [ok |-> TRUE,
             val |-> IF signed /\ Head(t) = "-"
                     THEN 0 - DigitsValue(body) ELSE DigitsValue(body)]
       ELSE [ok |-> FALSE, val |-> 0]

\* str(n) for n >= 0
RECURSIVE NatToStr(_)
NatToStr(n) ==
    IF n < 10 THEN <<Digits[n + 1]>>
    ELSE NatToStr(n \div 10) \o <<Digits[(n % 10) + 1]>>

\* '\n'.join(lines)
RECURSIVE JoinLines(_)
JoinLines(lines) ==
    IF lines = <<>> THEN <<>>
    ELSE IF Len(lines) = 1 THEN lines[1]
    ELSE lines[1] \o <<"\n">> \o JoinLines(Tail(lines))


(***************************************************************************)
(* The wire grammar of the synchronization (tmux_cmd_runner.py 75-79).     *)
(***************************************************************************)
\* the text TMUX_CMD_EXIT_CODE_, character by character
Keyword ==
    <<"T", "M", "U", "X", "_", "C", "M", "D", "_", "E", "X", "I", "T", "_", "C", "O", "D", "E", "_">>

\* f"TMUX_CMD_EXIT_CODE_{n}"
MarkerName(n) == Keyword \o NatToStr(n)

\* f"tmux-wait-{n}"
ChannelName(n) == <<"t", "m", "u", "x", "-", "w", "a", "i", "t", "-">> \o NatToStr(n)

\* f"{command_string};echo \"{exit_code_marker}:$?\";tmux wait-for -S \"{channel_name}\""
\* the text tmux wait-for -S
WaitForS ==
    <<"t", "m", "u", "x", " ", "w", "a", "i", "t", "-", "f", "o", "r", " ", "-", "S">>

FullCommand(command_string, mk, ch) ==
    command_string \o <<";", "e", "c", "h", "o", " ", "\"">> \o MarkerName(mk)
        \o <<":", "$", "?", "\"", ";">> \o WaitForS \o <<" ", "\"">>
        \o ChannelName(ch) \o <<"\"">>

(***************************************************************************)
(* ExecutionPolicy                                                         *)
(***************************************************************************)
\* _rules, in insertion order
DefaultRules ==
    << [prefix |-> <<"g", "r", "e", "p">>, codes |-> {0, 1}],
       [prefix |-> <<"d", "i", "f", "f">>, codes |-> {0, 1}] >>

default_accepted_codes == {0}

\* a variant of get_accepted_codes_from in which the prefix registered last wins
RECURSIVE get_accepted_codes_from_Last(_, _, _)
get_accepted_codes_from_Last(table, command_string, i) ==
    IF i > Len(table) THEN default_accepted_codes
    ELSE LET later == get_accepted_codes_from_Last(table, command_string, i + 1)
         IN IF \E j \in (i + 1)..Len(table) :
                   StartsWith(Strip(command_string), table[j].prefix)
            THEN later
            ELSE IF StartsWith(Strip(command_string), table[i].prefix)
            THEN table[i].codes
            ELSE later

\* the loop of get_accepted_codes over _rules.items(), from entry i on
RECURSIVE get_accepted_codes_from(_, _, _)
get_accepted_codes_from(table, command_string, i) ==
    IF i > Len(table) THEN default_accepted_codes
    ELSE IF StartsWith(Strip(command_string), table[i].prefix) THEN table[i].codes
    ELSE get_accepted_codes_from(table, command_string, i + 1)

get_accepted_codes(table, command_string) ==
    get_accepted_codes_from(table, command_string, 1)

\* a variant of add_rule that puts the rule at the end of the table, also
\* when the prefix is registered already
add_rule_AtEnd(table, command_prefix, accepted_codes) ==
    Append(SelectSeq(table, LAMBDA e : e.prefix # command_prefix),
           [prefix |-> command_prefix, codes |-> accepted_codes])

\* cls._rules[command_prefix] = accepted_codes: a dict keeps the place of a
\* key that is assigned again, a new key goes to the end
add_rule(table, command_prefix, accepted_codes) ==
    IF \E i \in 1..Len(table) : table[i].prefix = command_prefix
    THEN [i \in 1..Len(table) |->
             IF table[i].prefix = command_prefix
             THEN [prefix |-> command_prefix, codes |-> accepted_codes]
             ELSE table[i]]
    ELSE Append(table, [prefix |-> command_prefix, codes |-> accepted_codes])

(***************************************************************************)
(* _execute_str, lines 91-97: the exit code read back from the transcript. *)
(* The lines are scanned from the last one backward; -1 means "not found". *)
(***************************************************************************)
\* a variant of StatusField that reads the text after the final ':'
StatusField_LastField(line) ==
    LET fields == Split(Strip(line), ":")
    IN IF Len(fields) >= 2 THEN ParseInt(fields[Len(fields)])
       ELSE [ok |-> FALSE, val |-> 0]

\* line.strip().split(':')[1] parsed by int(); ok = FALSE on IndexError/ValueError
StatusField(line) ==
    LET fields == Split(Strip(line), ":")
    IN IF Len(fields) >= 2 THEN ParseInt(fields[2]) ELSE [ok |-> FALSE, val |-> 0]

\* a variant of ScanExitCode that takes the last line of any marker
RECURSIVE ScanExitCode_AnyMarker(_, _, _)
ScanExitCode_AnyMarker(output_lines, exit_code_marker, i) ==
    IF i = 0 THEN -1
    ELSE IF /\ StartsWith(Strip(output_lines[i]), Keyword)
            /\ StatusField(output_lines[i]).ok
         THEN StatusField(output_lines[i]).val
         ELSE ScanExitCode_AnyMarker(output_lines, exit_code_marker, i - 1)

RECURSIVE ScanExitCode(_, _, _)
ScanExitCode(output_lines, exit_code_marker, i) ==
    IF i = 0 THEN -1
    ELSE IF /\ StartsWith(Strip(output_lines[i]), exit_code_marker)
            /\ StatusField(output_lines[i]).ok
         THEN StatusField(output_lines[i]).val
         ELSE ScanExitCode(output_lines, exit_code_marker, i - 1)

ExitCodeOf(output_lines, exit_code_marker) ==
    ScanExitCode(output_lines, exit_code_marker, Len(output_lines))

(***************************************************************************)
(* TmuxTerminal.capture_clean_output                                       *)
(***************************************************************************)
JunkMarker == <<";", "e", "c", "h", "o", " ", "\"">> \o Keyword

\* the first loop (lines 178-208); skipping = inside the inner "for next_line"
RECURSIVE ProcessLines(_, _, _)
ProcessLines(full_output, i, skipping) ==
    IF i > Len(full_output) THEN <<>>
    ELSE LET line == full_output[i]
         IN IF skipping
            THEN ProcessLines(full_output, i + 1, ~Contains(line, <<"\"">>))
            ELSE IF StartsWith(Strip(line), Keyword) /\ Contains(line, <<":">>)
            THEN ProcessLines(full_output, i + 1, FALSE)
            ELSE IF Contains(line, JunkMarker)
            THEN <<SubSeq(line, 1, Find(line, JunkMarker) - 1)>>
                    \o ProcessLines(full_output, i + 1,
                          ~(/\ Contains(line, WaitForS)
                            /\ EndsWith(RStrip(line), <<"\"">>)))
            ELSE <<line>> \o ProcessLines(full_output, i + 1, FALSE)

\* the second loop (lines 211-215): a blank line after a blank line is dropped
RECURSIVE DropRepeatedBlanks(_, _)
DropRepeatedBlanks(processed_lines, i) ==
    IF i > Len(processed_lines) THEN <<>>
    ELSE IF /\ i > 1
            /\ Strip(processed_lines[i]) = <<>>
            /\ Strip(processed_lines[i - 1]) = <<>>
         THEN DropRepeatedBlanks(processed_lines, i + 1)
         ELSE <<processed_lines[i]>> \o DropRepeatedBlanks(processed_lines, i + 1)

capture_clean_output(full_output) ==
    Strip(JoinLines(DropRepeatedBlanks(ProcessLines(full_output, 1, FALSE), 1)))


(***************************************************************************)
(* Inputs: the payloads "m.data" of relay requests, the exit codes a       *)
(* command can end with, and the answers typed at the decision point.      *)
(***************************************************************************)
CmdLs == <<"l", "s">>
CmdGrep == <<"g", "r", "e", "p", " ", "x">>

StrItem(s) == [isstr |-> TRUE, s |-> s]
\* a list element that is not a string (a JSON number)
NonStrItem == [isstr |-> FALSE, s |-> <<>>]

PStr(s) == [kind |-> "str", s |-> s, items |-> <<>>]
PList(items) == [kind |-> "list", s |-> <<>>, items |-> items]
\* neither a string nor a list (a JSON object or number)
POther == [kind |-> "other", s |-> <<>>, items |-> <<>>]

\* what a direct caller passes to execute
Payloads ==
    { PStr(CmdLs),
      PList(<<StrItem(CmdGrep), NonStrItem, StrItem(CmdLs)>>),
      PList(<<NonStrItem>>),
      POther }

\* the m.data of the relay requests
RelayPayloads == { PStr(CmdLs), PStr(<<" ">>), PList(<<>>), POther }

\* how a command can end: its exit code, and whether the pane is so narrow
\* that the status line wraps
ShellOutcomes ==
    { [e |-> 0, wrapped |-> FALSE], [e |-> 1, wrapped |-> FALSE],
      [e |-> 1, wrapped |-> TRUE] }

RelayShellOutcomes == { [e |-> 0, wrapped |-> FALSE], [e |-> 1, wrapped |-> FALSE] }

\* what is typed at the decision point
Answers == { <<"y">>, <<"Y", " ">>, <<"n">> }

RelayAnswers == { <<"y">>, <<"n">> }

\* str.lower() on the symbols an answer is made of
Lower(s) == [i \in 1..Len(s) |-> IF s[i] = "Y" THEN "y" ELSE IF s[i] = "N" THEN "n" ELSE s[i]]

\* CommandResult.last_output = None
NoneVal == <<"<None>">>

Prompt == <<"$", " ">>

(***************************************************************************)
(* State.                                                                  *)
(***************************************************************************)
VARIABLES
    pane,            \* the tmux pane's transcript: a sequence of lines
    typed,           \* keystrokes written by send_keys the shell has not read yet
    shell,           \* the shell of the pane: idle, running a line, or about to signal
    woken,           \* wait-for channels signalled while nobody waited on them
    is_running_cmd,  \* TmuxTerminal.is_running_cmd
    command_counter, \* TmuxTerminal._command_counter
    last_output,     \* CommandResult.last_output
    epoch,           \* how many TmuxTerminal objects have been constructed after the first
    req,             \* per relay request: the task, its worker thread and the reply
    nextReq,         \* the next request to arrive
    issued,          \* history: the tokens written into the session, in order
    test_case,       \* archived/test.py: the lines given to clean_output and its result
    rules,           \* ExecutionPolicy._rules, in insertion order
    executor,        \* run_cmd.py: one CommandExecutor, its child process and reader threads
    client,          \* websocket_client.py: the WebSocketClient and its connection
    relay            \* websocket_server.py: the registry and the connections of the server

vars == <<pane, typed, shell, woken, is_running_cmd, command_counter,
          last_output, epoch, req, nextReq, issued, test_case, rules, executor,
          client, relay>>

Reqs == 1..MaxReq

IdleShell == [st |-> "idle", cmd |-> <<>>, mk |-> 0, ch |-> 0]

\* archived/test.py before a test case is run
NoCase == [lines |-> <<>>, logical |-> <<>>, actual |-> <<>>, run |-> FALSE]

\* a CommandExecutor after __init__: no command, no result
NoResult == [returncode |-> -1, stdout |-> <<>>, stderr |-> <<>>, made |-> FALSE]

NoExecutor ==
    [pc |-> "new",                            \* position of run / _run_streaming
     program |-> <<>>,                        \* what the child writes, in its order
     todo |-> 1,                              \* the next write of the child
     rc |-> 0,                                \* the exit code the child ends with
     exited |-> FALSE,                        \* the child has exited
     pipe |-> [out |-> <<>>, err |-> <<>>],   \* lines written and not yet read
     lines |-> [out |-> <<>>, err |-> <<>>],  \* stdout_lines, stderr_lines
     reader |-> [out |-> "new", err |-> "new"],   \* new, running, ended
     result |-> NoResult]                     \* self._result

\* a WebSocketClient after __init__ (websocket_client.py, lines 6-10)
NewClient ==
    [pc |-> "connect",     \* position of connect: connect, identify, listen, sleep
     ws |-> "none",        \* self.websocket: none, open, closed
     inbox |-> <<>>,       \* frames received on the connection, not yet iterated
     faults |-> 0,         \* history: failed attempts and lost connections
     attempts |-> 0,       \* history: calls of websockets.connect
     frames |-> 0,         \* history: frames that arrived, numbered in arrival order
     log |-> <<>>]         \* history: the events connected, identity, and frame
                           \* (a frame passed to on_message), in their order

\* an entry of the log; n numbers the frames, 0 otherwise
Event(e, n) == [e |-> e, n |-> n]

\* the client of the receiver once it is connected, identified and listening
ListeningClient ==
    [NewClient EXCEPT !.pc = "listen", !.ws = "open", !.attempts = 1,
                      !.log = <<Event("connected", 0), Event("identity", 0)>>]

Conns == 1..MaxConns

\* a connection the server has not accepted yet
NoConn ==
    [st |-> "free",        \* free, open, closed
     pc |-> "none",        \* handle_client: none, recv_id, loop, ended
     id |-> "",            \* client_id of the identification message
     rcvd |-> <<>>]        \* history: the frames the server sent on it

\* a relay server that no client has connected to
NoRelay ==
    [registry |-> <<>>,    \* connected_clients: websocket -> id, in insertion order
     conn |-> [c \in Conns |-> NoConn],
     handled |-> 0,        \* history: calls of handle_message
     last |-> [c |-> 0, t |-> "", kind |-> ""]]   \* history: the last of them

NoReply == [sent |-> FALSE, success |-> FALSE, result |-> NoneVal]

NewReq ==
    [st |-> "none",            \* none, task, thread, replied
     payload |-> POther,
     busyAtArrival |-> FALSE,  \* history: an execute call was in flight on arrival
     reply |-> NoReply,
     pc |-> "idle",            \* position of the thread inside execute
     held |-> FALSE,           \* history: this call has set the busy flag
     fresh |-> FALSE,          \* history: last_output is what this call's save wrote
     idx |-> 0,                \* index of the current command of a batch
     ch |-> 0, mk |-> 0, tmp |-> 0,   \* values read from _command_counter
     ec |-> 0,                 \* exit_code of the current command
     dret |-> "unset",         \* what _execute_dispatcher returned
     ret |-> "unset",          \* what execute returned
     exc |-> FALSE,            \* an exception is propagating out of execute
     sent |-> <<>>,            \* history: the batch indices written to the session
     trace |-> <<>>]           \* history: one record per command that ended

Init ==
    /\ pane = <<Prompt>>
    /\ typed = <<>>
    /\ shell = IdleShell
    /\ woken = {}
    /\ is_running_cmd = FALSE
    /\ command_counter = 0
    /\ last_output = NoneVal
    /\ epoch = 0
    /\ req = [r \in Reqs |-> NewReq]
    /\ nextReq = 1
    /\ issued = <<>>
    /\ test_case = NoCase
    /\ rules = DefaultRules
    /\ executor = NoExecutor
    /\ client = ListeningClient
    /\ relay = NoRelay

\* the positions between passing the busy check and the end of execute
InFlightPcs == {"set", "clear", "tok_chan", "tok_mark", "inc_read", "inc_write",
                "send", "wait", "waiting", "capture", "save", "fin"}

InFlight(r) == req[r].pc \in InFlightPcs


(***************************************************************************)
(* The relay adapter (receiver.py).                                        *)
(***************************************************************************)
\* send_message (websocket_client.py, lines 30-33): the frame goes out when
\* self.websocket is an open connection; with None nothing is sent, on a
\* closed connection send raises ConnectionClosed
Connected == client.ws = "open"

\* custom_on_message, called by listen for a frame that is valid JSON with
\* m.data and s; an exception of the send at line 73 is caught at line 81
OnMessage(p) ==
    /\ nextReq <= MaxReq
    /\ client.pc = "listen"
    /\ Connected
    /\ req' = [req EXCEPT ![nextReq] =
                  IF is_running_cmd
                  THEN [@ EXCEPT !.st = "replied",
                                 !.busyAtArrival = \E q \in Reqs : InFlight(q),
                                 !.reply = [sent |-> Connected, success |-> FALSE,
                                            result |-> NoneVal]]
                  ELSE [@ EXCEPT !.st = "task", !.payload = p,
                                 !.busyAtArrival = \E q \in Reqs : InFlight(q)]]
    /\ nextReq' = nextReq + 1
    /\ UNCHANGED <<pane, typed, shell, woken, is_running_cmd, command_counter,
                   last_output, epoch, issued, test_case,
                   rules, executor, client, relay>>

\* run_cmd_and_get_result, lines 22-29: the checks that raise before execute
Malformed(p) ==
    \/ p.kind \notin {"str", "list"}
    \/ p.kind = "str" /\ Strip(p.s) = <<>>
    \/ p.kind = "list" /\ p.items = <<>>

\* execute_and_log_task up to asyncio.to_thread(term.execute, cmd)
TaskStart(r) ==
    /\ req[r].st = "task"
    /\ req' = [req EXCEPT ![r] =
                  IF Malformed(req[r].payload)
                  THEN [NewReq EXCEPT !.st = "replied",
                                      !.busyAtArrival = req[r].busyAtArrival,
                                      !.reply = [sent |-> Connected, success |-> FALSE,
                                                 result |-> NoneVal]]
                  ELSE [@ EXCEPT !.st = "thread", !.pc = "check"]]
    /\ UNCHANGED <<pane, typed, shell, woken, is_running_cmd, command_counter,
                   last_output, epoch, nextReq, issued, test_case,
                   rules, executor, client, relay>>

\* execute_and_log_task after execute ended: CommandResult.get() and the
\* reply; the thread and the task are gone, only the reply is kept
TaskReply(r) ==
    /\ req[r].st = "thread"
    /\ req[r].pc = "done"
    /\ req' = [req EXCEPT ![r] =
                  [NewReq EXCEPT !.st = "replied",
                                 !.busyAtArrival = req[r].busyAtArrival,
                                 !.reply = IF req[r].exc
                                           THEN [sent |-> Connected, success |-> FALSE,
                                                 result |-> NoneVal]
                                           ELSE [sent |-> Connected, success |-> TRUE,
                                                 result |-> last_output]]]
    /\ UNCHANGED <<pane, typed, shell, woken, is_running_cmd, command_counter,
                   last_output, epoch, nextReq, issued, test_case,
                   rules, executor, client, relay>>

(***************************************************************************)
(* _execute_dispatcher and _execute_list: which command comes next.        *)
(***************************************************************************)
\* the first index >= from of a string item, 0 when the loop runs off the list
NextStr(items, from) ==
    IF \E j \in from..Len(items) : items[j].isstr
    THEN CHOOSE j \in from..Len(items) :
            items[j].isstr /\ \A k \in from..(j - 1) : ~items[k].isstr
    ELSE 0

\* the command text the thread is working on
Cmd(rec) ==
    IF rec.payload.kind = "str" THEN rec.payload.s ELSE rec.payload.items[rec.idx].s

\* _execute_dispatcher(command, self) is entered
BeginDispatch(rec) ==
    IF rec.payload.kind = "str"
    THEN [rec EXCEPT !.pc = "tok_chan", !.idx = 0]
    ELSE IF rec.payload.kind = "list"
    THEN IF NextStr(rec.payload.items, 1) = 0
         THEN [rec EXCEPT !.pc = "save", !.dret = "True"]
         ELSE [rec EXCEPT !.pc = "tok_chan", !.idx = NextStr(rec.payload.items, 1)]
    ELSE [rec EXCEPT !.pc = "fin", !.exc = TRUE]

\* a variant of ListStep that goes on with the next command after a failure
ListStep_GoesOn(rec, success) ==
    IF NextStr(rec.payload.items, rec.idx + 1) = 0
    THEN [rec EXCEPT !.pc = "save", !.dret = IF success THEN "True" ELSE "False"]
    ELSE [rec EXCEPT !.pc = "tok_chan", !.idx = NextStr(rec.payload.items, rec.idx + 1)]

\* _execute_list after one command returned `success`
ListStep(rec, success) ==
    IF ~success
    THEN [rec EXCEPT !.pc = "save", !.dret = "False"]
    ELSE IF NextStr(rec.payload.items, rec.idx + 1) = 0
    THEN [rec EXCEPT !.pc = "save", !.dret = "True"]
    ELSE [rec EXCEPT !.pc = "tok_chan", !.idx = NextStr(rec.payload.items, rec.idx + 1)]

\* _execute_str returns `success` for the current command
Return(rec, waited, asked, answer, success) ==
    LET logged == [rec EXCEPT !.trace = Append(@,
                      [idx |-> rec.idx, seq |-> rec.mk, waited |-> waited,
                       ec |-> rec.ec, asked |-> asked, answer |-> answer,
                       outcome |-> success])]
    IN IF rec.payload.kind = "str"
       THEN [logged EXCEPT !.pc = "save",
                           !.dret = IF success THEN "True" ELSE "False"]
       ELSE ListStep(logged, success)


(***************************************************************************)
(* TmuxTerminal.execute, run in a worker thread by asyncio.to_thread.      *)
(* Every read and every write of a shared attribute is a step of its own:  *)
(* the threads share is_running_cmd and _command_counter without a lock.   *)
(***************************************************************************)
\* a variant of ExecCheck in which the early return runs the finally block
ExecCheck_Releases(r) ==
    /\ req[r].pc = "check"
    /\ req' = [req EXCEPT ![r] =
                  IF is_running_cmd
                  THEN [@ EXCEPT !.pc = "done", !.ret = "None"]
                  ELSE [@ EXCEPT !.pc = "set"]]
    /\ is_running_cmd' = FALSE
    /\ UNCHANGED <<pane, typed, shell, woken, command_counter,
                   last_output, epoch, nextReq, issued, test_case,
                   rules, executor, client, relay>>

\* line 230: if self.is_running_cmd: ... return
ExecCheck(r) ==
    /\ req[r].pc = "check"
    /\ req' = [req EXCEPT ![r] =
                  IF is_running_cmd
                  THEN [@ EXCEPT !.pc = "done", !.ret = "None"]
                  ELSE [@ EXCEPT !.pc = "set"]]
    /\ UNCHANGED <<pane, typed, shell, woken, is_running_cmd, command_counter,
                   last_output, epoch, nextReq, issued, test_case,
                   rules, executor, client, relay>>

\* line 233: self.is_running_cmd = True
ExecSet(r) ==
    /\ req[r].pc = "set"
    /\ is_running_cmd' = TRUE
    /\ req' = [req EXCEPT ![r] = [@ EXCEPT !.pc = "clear", !.held = TRUE]]
    /\ UNCHANGED <<pane, typed, shell, woken, command_counter, last_output,
                   epoch, nextReq, issued, test_case,
                   rules, executor, client, relay>>

\* lines 234-237: pane.clear() and clear-history, outside the try block;
\* ok = FALSE: the tmux call raises and the exception leaves execute
ExecClear(r, ok) ==
    /\ req[r].pc = "clear"
    /\ IF ok
       THEN /\ pane' = <<Prompt>>
            /\ req' = [req EXCEPT ![r] = BeginDispatch(@)]
       ELSE /\ pane' = pane
            /\ req' = [req EXCEPT ![r] = [@ EXCEPT !.pc = "done", !.exc = TRUE]]
    /\ UNCHANGED <<typed, shell, woken, is_running_cmd, command_counter,
                   last_output, epoch, nextReq, issued, test_case,
                   rules, executor, client, relay>>

\* line 75: channel_name = f"tmux-wait-{term_instance._command_counter}"
ReadChannel(r) ==
    /\ req[r].pc = "tok_chan"
    /\ req' = [req EXCEPT ![r] = [@ EXCEPT !.ch = command_counter, !.pc = "tok_mark"]]
    /\ UNCHANGED <<pane, typed, shell, woken, is_running_cmd, command_counter,
                   last_output, epoch, nextReq, issued, test_case,
                   rules, executor, client, relay>>

\* line 76: exit_code_marker = f"TMUX_CMD_EXIT_CODE_{term_instance._command_counter}"
ReadMarker(r) ==
    /\ req[r].pc = "tok_mark"
    /\ req' = [req EXCEPT ![r] = [@ EXCEPT !.mk = command_counter, !.pc = "inc_read"]]
    /\ UNCHANGED <<pane, typed, shell, woken, is_running_cmd, command_counter,
                   last_output, epoch, nextReq, issued, test_case,
                   rules, executor, client, relay>>

\* line 77, the read of  term_instance._command_counter += 1
IncRead(r) ==
    /\ req[r].pc = "inc_read"
    /\ req' = [req EXCEPT ![r] = [@ EXCEPT !.tmp = command_counter, !.pc = "inc_write"]]
    /\ UNCHANGED <<pane, typed, shell, woken, is_running_cmd, command_counter,
                   last_output, epoch, nextReq, issued, test_case,
                   rules, executor, client, relay>>

\* line 77, the write of  term_instance._command_counter += 1
IncWrite(r) ==
    /\ req[r].pc = "inc_write"
    /\ command_counter' = req[r].tmp + 1
    /\ req' = [req EXCEPT ![r].pc = "send"]
    /\ UNCHANGED <<pane, typed, shell, woken, is_running_cmd, last_output,
                   epoch, nextReq, issued, test_case,
                   rules, executor, client, relay>>

\* lines 79-80: pane.send_keys(full_command, enter=True);
\* ok = FALSE: the tmux call raises, nothing is written
SendKeys(r, ok) ==
    /\ req[r].pc = "send"
    /\ IF ok
       THEN /\ typed' = Append(typed, [cmd |-> Cmd(req[r]), mk |-> req[r].mk,
                                       ch |-> req[r].ch])
            /\ issued' = Append(issued, [epoch |-> epoch, mk |-> req[r].mk,
                                         ch |-> req[r].ch])
            /\ req' = [req EXCEPT ![r] = [@ EXCEPT !.pc = "wait",
                                                   !.sent = Append(@, req[r].idx)]]
       ELSE /\ UNCHANGED <<typed, issued, test_case,
                   rules, executor>>
            /\ req' = [req EXCEPT ![r] = [@ EXCEPT !.pc = "fin", !.exc = TRUE]]
    /\ UNCHANGED <<pane, shell, woken, is_running_cmd, command_counter,
                   last_output, epoch, nextReq, test_case,
                   rules, executor, client, relay>>

\* lines 82-86: server.cmd('wait-for', channel_name).  A channel signalled
\* earlier lets the wait return at once; ok = FALSE: the call raises, the
\* exception is caught and the command returns False
WaitFor(r, ok) ==
    /\ req[r].pc = "wait"
    /\ IF ~ok
       THEN /\ req' = [req EXCEPT ![r] =
                          Return([@ EXCEPT !.ec = -1], FALSE, FALSE, <<>>, FALSE)]
            /\ woken' = woken
       ELSE IF req[r].ch \in woken
       THEN /\ req' = [req EXCEPT ![r].pc = "capture"]
            /\ woken' = woken \ {req[r].ch}
       ELSE /\ req' = [req EXCEPT ![r].pc = "waiting"]
            /\ woken' = woken
    /\ UNCHANGED <<pane, typed, shell, is_running_cmd, command_counter,
                   last_output, epoch, nextReq, issued, test_case,
                   rules, executor, client, relay>>

\* a variant of Accepted that knows the default accepted codes only
Accepted_DefaultOnly(exit_code, command_string) ==
    exit_code \in default_accepted_codes

\* lines 109-111: the policy accepts the exit code for this command
Accepted(exit_code, command_string) ==
    exit_code \in get_accepted_codes(rules, command_string)

\* a variant of Choice that resolves every escalation to "continue"
Choice_Fixed(answer) == TRUE

\* lines 101-102 and 115-116: input(...).lower().strip() == 'y'
Choice(answer) == Strip(Lower(answer)) = <<"y">>

\* lines 99 and 111: the command is decided without the decision point
Decided(exit_code, command_string) ==
    exit_code # -1 /\ Accepted(exit_code, command_string)

\* lines 88-121: capture_pane, the scan for the exit code, the policy and,
\* when the command is escalated, the answer typed at the decision point
Capture(r, answer) ==
    /\ req[r].pc = "capture"
    /\ LET exit_code == ExitCodeOf(pane, MarkerName(req[r].mk))
           rec == [req[r] EXCEPT !.ec = exit_code]
       IN IF Decided(exit_code, Cmd(rec))
          THEN /\ answer = <<>>
               /\ req' = [req EXCEPT ![r] = Return(rec, TRUE, FALSE, <<>>, TRUE)]
          ELSE /\ answer # <<>>
               /\ req' = [req EXCEPT ![r] =
                             Return(rec, TRUE, TRUE, answer, Choice(answer))]
    /\ UNCHANGED <<pane, typed, shell, woken, is_running_cmd, command_counter,
                   last_output, epoch, nextReq, issued, test_case,
                   rules, executor, client, relay>>

\* line 240: CommandResult.save_from_terminal(self);
\* ok = FALSE: capture-pane raises
Save(r, ok) ==
    /\ req[r].pc = "save"
    /\ IF ok
       THEN /\ last_output' = capture_clean_output(pane)
            /\ req' = [q \in Reqs |->
                         IF q = r THEN [req[q] EXCEPT !.pc = "fin", !.fresh = TRUE]
                         ELSE [req[q] EXCEPT !.fresh = FALSE]]
       ELSE /\ last_output' = last_output
            /\ req' = [req EXCEPT ![r] = [@ EXCEPT !.pc = "fin", !.exc = TRUE]]
    /\ UNCHANGED <<pane, typed, shell, woken, is_running_cmd, command_counter,
                   epoch, nextReq, issued, test_case,
                   rules, executor, client, relay>>

\* lines 241-242: finally: self.is_running_cmd = False; execute has no
\* return statement with a value, so a call that ends normally returns None
Finally(r) ==
    /\ req[r].pc = "fin"
    /\ is_running_cmd' = FALSE
    /\ req' = [req EXCEPT ![r] =
                  [@ EXCEPT !.pc = "done",
                            !.ret = IF req[r].exc THEN "unset" ELSE "None"]]
    /\ UNCHANGED <<pane, typed, shell, woken, command_counter, last_output,
                   epoch, nextReq, issued, test_case,
                   rules, executor, client, relay>>

(***************************************************************************)
(* The tmux session: the shell of the pane reads the typed lines one by    *)
(* one, runs the command, echoes the status and signals the channel.       *)
(***************************************************************************)
\* the shell reads the next typed line; the pane shows it after the prompt
ShellStart ==
    /\ shell.st = "idle"
    /\ typed # <<>>
    /\ LET l == Head(typed)
           echo == Prompt \o FullCommand(l.cmd, l.mk, l.ch)
       IN /\ pane' = IF pane # <<>> /\ pane[Len(pane)] = Prompt
                     THEN SubSeq(pane, 1, Len(pane) - 1) \o <<echo>>
                     ELSE Append(pane, echo)
          /\ shell' = [st |-> "run", cmd |-> l.cmd, mk |-> l.mk, ch |-> l.ch]
    /\ typed' = Tail(typed)
    /\ UNCHANGED <<woken, is_running_cmd, command_counter, last_output,
                   epoch, req, nextReq, issued, test_case,
                   rules, executor, client, relay>>

\* what a command prints: one line when it succeeds
OutputOf(e) == IF e = 0 THEN << <<"o", "k">> >> ELSE <<>>

\* echo "<marker>:$?" as the pane shows it; in a pane narrower than the
\* status line the line wraps (archived/test.py, test case 4)
StatusLines(mk, e, wrapped) ==
    IF wrapped
    THEN << MarkerName(mk), <<":">> \o NatToStr(e) >>
    ELSE << MarkerName(mk) \o <<":">> \o NatToStr(e) >>

\* the command ends with exit code o.e and the status echo runs
ShellFinish(o) ==
    /\ shell.st = "run"
    /\ pane' = pane \o OutputOf(o.e) \o StatusLines(shell.mk, o.e, o.wrapped)
    /\ shell' = [shell EXCEPT !.st = "sig"]
    /\ UNCHANGED <<typed, woken, is_running_cmd, command_counter, last_output,
                   epoch, req, nextReq, issued, test_case,
                   rules, executor, client, relay>>

\* tmux wait-for -S "<channel>": every waiter of the channel wakes up; with
\* no waiter the channel stays signalled.  Then the shell prompts again.
ShellSignal ==
    /\ shell.st = "sig"
    /\ LET waiters == {r \in Reqs : req[r].pc = "waiting" /\ req[r].ch = shell.ch}
       IN IF waiters # {}
          THEN /\ req' = [r \in Reqs |->
                            IF r \in waiters THEN [req[r] EXCEPT !.pc = "capture"]
                            ELSE req[r]]
               /\ woken' = woken
          ELSE /\ req' = req
               /\ woken' = woken \cup {shell.ch}
    /\ pane' = Append(pane, Prompt)
    /\ shell' = IdleShell
    /\ UNCHANGED <<typed, is_running_cmd, command_counter, last_output,
                   epoch, nextReq, issued, test_case,
                   rules, executor, client, relay>>

(***************************************************************************)
(* A direct caller: the main thread of a script calls term.execute(...)    *)
(* and goes on when the call has returned (tmux_cmd_runner.py, __main__).  *)
(***************************************************************************)
Quiet == \A r \in Reqs : req[r].st \in {"none", "replied", "returned"}

\* term.execute(p) is called
Call(p) ==
    /\ nextReq <= MaxReq
    /\ Quiet
    /\ req' = [req EXCEPT ![nextReq] = [@ EXCEPT !.st = "call", !.payload = p,
                                                 !.pc = "check"]]
    /\ nextReq' = nextReq + 1
    /\ UNCHANGED <<pane, typed, shell, woken, is_running_cmd, command_counter,
                   last_output, epoch, issued, test_case,
                   rules, executor, client, relay>>

\* the call has ended, by a return or by an exception
CallReturn(r) ==
    /\ req[r].st = "call"
    /\ req[r].pc = "done"
    /\ req' = [req EXCEPT ![r] = [NewReq EXCEPT !.st = "returned"]]
    /\ UNCHANGED <<pane, typed, shell, woken, is_running_cmd, command_counter,
                   last_output, epoch, nextReq, issued, test_case,
                   rules, executor, client, relay>>

(***************************************************************************)
(* The script ends with the session left running (__exit__ answered 'N')   *)
(* and a new process constructs a TmuxTerminal for the same session name:  *)
(* __init__ and __enter__, which attaches to the session that is there.    *)
(* The CommandResult of the new process starts empty.                      *)
(***************************************************************************)
Reattach ==
    /\ epoch < MaxAttach
    /\ Quiet
    /\ epoch' = epoch + 1
    /\ is_running_cmd' = FALSE
    /\ command_counter' = 0
    /\ last_output' = NoneVal
    /\ UNCHANGED <<pane, typed, shell, woken, req, nextReq, issued, test_case,
                   rules, executor, client, relay>>

(***************************************************************************)
(* The steps of execute in a thread; oks = the outcomes of the tmux calls  *)
(* (TRUE: the call returns, FALSE: it raises).                             *)
(***************************************************************************)
Thread(r, oks, answers) ==
    \/ ExecCheck(r)
    \/ ExecSet(r)
    \/ \E ok \in oks : ExecClear(r, ok)
    \/ ReadChannel(r)
    \/ ReadMarker(r)
    \/ IncRead(r)
    \/ IncWrite(r)
    \/ \E ok \in oks : SendKeys(r, ok)
    \/ \E ok \in oks : WaitFor(r, ok)
    \/ \E answer \in answers \cup {<<>>} : Capture(r, answer)
    \/ \E ok \in oks : Save(r, ok)
    \/ Finally(r)

Shell(outcomes) ==
    \/ ShellStart
    \/ \E o \in outcomes : ShellFinish(o)
    \/ ShellSignal

(***************************************************************************)
(* Spec: the receiver process.  Requests arrive over the relay, every      *)
(* accepted request runs execute in a worker thread of its own.            *)
(***************************************************************************)
Next ==
    \/ \E p \in RelayPayloads : OnMessage(p)
    \/ \E r \in Reqs : TaskStart(r)
    \/ \E r \in Reqs : TaskReply(r)
    \/ \E r \in Reqs : Thread(r, {TRUE}, RelayAnswers)
    \/ Shell(RelayShellOutcomes)

Spec == Init /\ [][Next]_vars

(***************************************************************************)
(* SpecDirect: a script that calls execute from its main thread, one call  *)
(* after the other.                                                        *)
(***************************************************************************)
NextDirect ==
    \/ \E p \in Payloads : Call(p)
    \/ \E r \in Reqs : CallReturn(r)
    \/ \E r \in Reqs : Thread(r, BOOLEAN, Answers)
    \/ Shell(ShellOutcomes)

SpecDirect == Init /\ [][NextDirect]_vars

(***************************************************************************)
(* SpecAttach: the script is run again and again on the session it left    *)
(* behind.                                                                 *)
(***************************************************************************)
NextAttach ==
    \/ Call(PStr(CmdLs))
    \/ \E r \in Reqs : CallReturn(r)
    \/ \E r \in Reqs : Thread(r, {TRUE}, RelayAnswers)
    \/ Shell(RelayShellOutcomes)
    \/ Reattach

SpecAttach == Init /\ [][NextAttach]_vars

(***************************************************************************)
(* SpecParse: one call of execute("ls") whose rendezvous has returned, on  *)
(* a pane that shows any transcript of up to MaxLines lines: what a        *)
(* command prints is up to the command.  The token of the command is 1 or  *)
(* 10, the lines are written for the marker TMUX_CMD_EXIT_CODE_1.          *)
(***************************************************************************)
K1 == MarkerName(1)

TranscriptLines ==
    { K1 \o <<":", "0">>,                   \* a status line
      K1 \o <<":", "1", ":", "2">>,         \* two colons
      K1,                                   \* the marker alone (a wrapped status line)
      K1 \o <<":", "x">>,                   \* no number after the colon
      <<" ">> \o K1 \o <<":", " ", "7", " ">>,  \* blanks around marker and number
      K1 \o <<"0", ":", "3">>,              \* the status line of token 10
      K1 \o <<":", "-", "1">>,              \* the number -1
      <<"x">> \o K1 \o <<":", "5">>,        \* the marker not at the start
      Prompt }

Transcripts ==
    UNION { [1..n -> TranscriptLines] : n \in 0..MaxLines }

TokensUpTo(n) == [i \in 1..(n + 1) |-> [epoch |-> 0, mk |-> i - 1, ch |-> i - 1]]

InitParse ==
    /\ pane \in Transcripts
    /\ typed = <<>>
    /\ shell = IdleShell
    /\ woken = {}
    /\ is_running_cmd = TRUE
    /\ \E n \in {1, 10} :
          /\ command_counter = n + 1
          /\ issued = TokensUpTo(n)
          /\ req = [r \in Reqs |->
                      IF r = 1
                      THEN [NewReq EXCEPT !.st = "call", !.payload = PStr(CmdLs),
                                          !.pc = "capture", !.held = TRUE,
                                          !.ch = n, !.mk = n, !.sent = <<0>>]
                      ELSE NewReq]
    /\ last_output = NoneVal
    /\ epoch = 0
    /\ nextReq = MaxReq + 1
    /\ test_case = NoCase
    /\ rules = DefaultRules
    /\ executor = NoExecutor
    /\ client = ListeningClient
    /\ relay = NoRelay

NextParse ==
    \/ \E answer \in RelayAnswers \cup {<<>>} : Capture(1, answer)
    \/ Save(1, TRUE)
    \/ Finally(1)
    \/ CallReturn(1)

SpecParse == InitParse /\ [][NextParse]_vars


(***************************************************************************)
(* The claims.                                                             *)
(***************************************************************************)
\* the positions of a call after its dispatch has ended
EndedPcs == {"save", "fin", "done"}

\* the indices of the string items of a batch, in list order
StrIdx(items) ==
    SelectSeq([i \in 1..Len(items) |-> i], LAMBDA i : items[i].isstr)

\* the command text a trace record is about
TextOf(rec, t) ==
    IF rec.payload.kind = "str" THEN rec.payload.s ELSE rec.payload.items[t.idx].s

\* C1: at most one dispatch is in flight against the pane: while one execute
\* call is between passing the busy check and its end, no other execute call
\* clears the pane or writes a wrapped command into it.
C1_OneDispatchInFlight ==
    [][\A r \in Reqs :
          (\/ req[r].pc = "clear" /\ req'[r].pc # "clear" /\ ~req'[r].exc
           \/ req[r].pc = "send" /\ req'[r].pc = "wait")
          => \A q \in Reqs \ {r} : ~InFlight(q)]_vars

\* C2: a relay request that arrives while a dispatch is in flight is answered
\* with success false, never with success true, and nothing is written to
\* the session for it.
C2_BusyRequestRejected ==
    \A r \in Reqs :
        req[r].busyAtArrival =>
            /\ req[r].reply.sent => ~req[r].reply.success
            /\ req[r].sent = <<>>

\* C3: whenever an execute call that set is_running_cmd ends, by a return or
\* by an exception raised at any step after the flag was set, the flag is
\* false afterwards.
C3_BusyFlagReleased ==
    \A r \in Reqs :
        req[r].pc = "done" /\ req[r].held => ~is_running_cmd


\* C4: the commands of a batch are written to the session in list order, one
\* at a time; once a command's outcome is failure no later command of the
\* batch is written and the batch outcome is failure; the batch outcome is
\* success only if every command's outcome was success.
C4_BatchInOrder ==
    \A r \in Reqs :
        req[r].payload.kind = "list" =>
            LET rec == req[r]
                want == StrIdx(rec.payload.items)
                n == Len(rec.sent)
                m == Len(rec.trace)
            IN /\ n <= Len(want) /\ rec.sent = SubSeq(want, 1, n)
               /\ m <= n /\ n <= m + 1
               /\ \A k \in 1..m : rec.trace[k].idx = rec.sent[k]
               /\ \A k \in 1..m :
                     ~rec.trace[k].outcome =>
                         n = k /\ rec.pc \in EndedPcs /\ rec.dret = "False"
               /\ rec.dret = "True" =>
                     m = Len(want) /\ \A k \in 1..m : rec.trace[k].outcome
               /\ rec.dret = "False" => m >= 1 /\ ~rec.trace[m].outcome

\* a batch of two commands has ended after the failure of its first command
C4_Witness ==
    \E r \in Reqs :
        /\ req[r].payload.kind = "list"
        /\ Len(StrIdx(req[r].payload.items)) = 2
        /\ req[r].pc = "done"
        /\ req[r].dret = "False"
        /\ Len(req[r].sent) = 1

\* the accepted exit codes of the commands of the model, by the default table
PolicyAccepts(command_string, exit_code) ==
    IF command_string = CmdGrep THEN exit_code \in {0, 1} ELSE exit_code = 0

SaysContinue(answer) == answer \in { <<"y">>, <<"Y", " ">> }

\* C6: an escalation is resolved by the answer given at the decision point:
\* "continue" makes the outcome success and a batch goes on with its next
\* command, any other answer makes the outcome failure and a batch stops.
C6_EscalationAnswer ==
    \A r \in Reqs :
        LET rec == req[r]
            m == Len(rec.trace)
        IN /\ \A k \in 1..m :
                 rec.trace[k].asked =>
                     (rec.trace[k].outcome <=> SaysContinue(rec.trace[k].answer))
           /\ m >= 1 /\ rec.trace[m].asked /\ rec.payload.kind = "list"
              /\ Len(rec.sent) = m /\ ~rec.exc =>
                 IF ~SaysContinue(rec.trace[m].answer)
                 THEN rec.pc \in EndedPcs /\ rec.dret = "False"
                 ELSE IF NextStr(rec.payload.items, rec.trace[m].idx + 1) = 0
                 THEN rec.pc \in EndedPcs /\ rec.dret = "True"
                 ELSE /\ rec.pc \in {"tok_chan", "tok_mark", "inc_read",
                                     "inc_write", "send"}
                      /\ rec.idx = NextStr(rec.payload.items, rec.trace[m].idx + 1)

\* a batch whose first command was escalated and answered "Y " has written
\* its second command; the second was escalated and answered "n"
C6_Witness ==
    \E r \in Reqs :
        /\ Len(req[r].trace) = 2
        /\ req[r].trace[1].asked /\ req[r].trace[1].answer = <<"Y", " ">>
        /\ req[r].trace[2].asked /\ req[r].trace[2].answer = <<"n">>
        /\ req[r].dret = "False"


\* C7: the sequence numbers used by the commands dispatched through one
\* TmuxTerminal are strictly increasing in dispatch order (hence pairwise
\* distinct), and each command uses one number for its channel and marker.
C7_TokensIncrease ==
    /\ \A i, j \in 1..Len(issued) :
          i < j /\ issued[i].epoch = issued[j].epoch =>
              issued[i].mk < issued[j].mk
    /\ \A i \in 1..Len(issued) : issued[i].mk = issued[i].ch

\* C8: within the lifetime of one tmux session no sequence number, hence no
\* channel name and no marker name, is issued for two dispatched commands,
\* also across successive TmuxTerminal objects attached to the session.
C8_TokensNeverReused ==
    \A i, j \in 1..Len(issued) :
        i < j => issued[i].mk # issued[j].mk /\ issued[i].ch # issued[j].ch

\* the positions of ':' in a text
Colons(t) == {c \in 1..Len(t) : t[c] = ":"}

Largest(S) == CHOOSE x \in S : \A y \in S : y <= x

Smallest(S) == CHOOSE x \in S : \A y \in S : x <= y

\* the lines of the pane that start with the marker, blanks aside
MarkerLines(marker) ==
    {i \in 1..Len(pane) : StartsWith(Strip(pane[i]), marker)}

\* the text between the first ':' of a line and its next ':' (or its end)
SecondField(line) ==
    LET t == Strip(line)
        first == Smallest(Colons(t))
        later == {c \in Colons(t) : c > first}
    IN SubSeq(t, first + 1, IF later = {} THEN Len(t) ELSE Smallest(later) - 1)

\* the text after the final ':' of a line
FinalField(line) ==
    LET t == Strip(line) IN SubSeq(t, Largest(Colons(t)) + 1, Len(t))

\* the marker lines whose second field is an integer
StatusLinesFor(marker) ==
    {i \in MarkerLines(marker) :
        Colons(Strip(pane[i])) # {} /\ ParseInt(SecondField(pane[i])).ok}

\* C9 as stated: the exit code taken for a command is the integer after the
\* final ':' of the last line of the transcript that starts with the
\* command's marker name.
C9_FinalColonOfLastMarkerLine ==
    \A r \in Reqs :
        req[r].trace # <<>> /\ req[r].pc = "save" =>
            LET lines == MarkerLines(MarkerName(req[r].mk))
                last == pane[Largest(lines)]
            IN lines # {} /\ Colons(Strip(last)) # {} /\ ParseInt(FinalField(last)).ok
                  => req[r].trace[1].ec = ParseInt(FinalField(last)).val

\* C9 as amended: the exit code taken for a command is the integer between
\* the first ':' and the next ':' (or the end) of the last line of the
\* transcript that starts with the command's marker name and has an integer
\* there; lines with the marker that have no ':' or no integer after it are
\* passed over, and the code is -1 (unknown) when no line is left.
C9_FirstFieldOfLastStatusLine ==
    \A r \in Reqs :
        req[r].trace # <<>> /\ req[r].pc = "save" =>
            LET lines == StatusLinesFor(MarkerName(req[r].mk))
            IN req[r].trace[1].ec =
                  IF lines = {} THEN -1
                  ELSE ParseInt(SecondField(pane[Largest(lines)])).val

\* the exit code was taken from a two-colon line that lies before a marker
\* line without a number
C9_Witness ==
    \E r \in Reqs :
        /\ req[r].trace # <<>> /\ req[r].pc = "save"
        /\ req[r].mk = 1
        /\ Len(pane) = 3
        /\ pane[2] = K1 \o <<":", "1", ":", "2">>
        /\ pane[3] = K1 \o <<":", "x">>
        /\ req[r].trace[1].ec = 1

\* C10: execute returns a boolean: true exactly when every command of the
\* dispatch ended with outcome success, false when a command failed, an
\* escalation was answered with abort, or the dispatch was rejected.
C10_ExecuteReturnsSuccess ==
    \A r \in Reqs :
        req[r].pc = "done" /\ ~req[r].exc =>
            /\ req[r].ret \in {"True", "False"}
            /\ req[r].ret = "True" <=> req[r].held /\ req[r].dret = "True"

\* C11: the reply {"success": true, ...} is sent only for a request whose
\* dispatch ended with overall success; a request whose dispatch failed or
\* was aborted at the decision point is answered {"success": false}.
C11_ReplyEncodesOutcome ==
    [][\A r \in Reqs :
          req[r].st = "thread" /\ req'[r].st = "replied" /\ req[r].held =>
              (req'[r].reply.success <=> ~req[r].exc /\ req[r].dret = "True")]_vars

\* C14: every CommandResult.get made for a relay request happens when no
\* execute call is between setting and clearing the busy flag.
C14_NoReadInFlight ==
    [][\A r \in Reqs :
          /\ req[r].st = "thread" /\ req'[r].st = "replied"
          /\ req[r].held /\ ~req[r].exc
          => \A q \in Reqs : ~(req[q].held /\ InFlight(q))]_vars

\* C12: a command whose signal is not emitted keeps its execute call
\* waiting: the call leaves the wait only in the step in which the shell
\* signals its channel, and as long as it waits the busy flag is set and
\* every relay request that arrives is rejected.
C12_WaitHasNoTimeout ==
    [][\A r \in Reqs :
          req[r].pc = "waiting" =>
              /\ req'[r].pc # "waiting" =>
                    shell.st = "sig" /\ shell.ch = req[r].ch
              /\ is_running_cmd
              /\ \A q \in Reqs :
                    req[q].st = "none" /\ req'[q].st # "none" =>
                        req'[q].st = "replied" /\ ~req'[q].reply.success]_vars

\* C13: a dispatch that runs to its end, with overall success or aborted,
\* passes through the save of the result; the save replaces the stored
\* result by the sanitized transcript of the pane as it is then, and when
\* the dispatch ends the slot still holds what its save wrote.
C13_StoreAfterDispatch ==
    [][\A r \in Reqs :
          /\ req[r].pc # "done" /\ req'[r].pc = "done"
                /\ req'[r].held /\ ~req'[r].exc
                => req[r].pc = "fin" /\ req[r].dret \in {"True", "False"}
          /\ req[r].pc # "fin" /\ req'[r].pc = "fin" /\ ~req'[r].exc
                => req[r].pc = "save" /\ last_output' = capture_clean_output(pane)
          /\ req[r].pc = "fin" /\ ~req[r].exc => last_output' = last_output]_vars

\* a command that is malformed: a blank string, an empty batch, or neither
\* a string nor a list of non-blank strings
MalformedCommand(p) ==
    \/ p.kind \notin {"str", "list"}
    \/ p.kind = "str" /\ Strip(p.s) = <<>>
    \/ p.kind = "list" /\ p.items = <<>>
    \/ p.kind = "list" /\ \E i \in 1..Len(p.items) :
            ~p.items[i].isstr \/ Strip(p.items[i].s) = <<>>

\* C15: for a malformed command the session is neither cleared nor written
\* to and the decision point is not consulted, also when the command is
\* passed directly to execute.
C15_MalformedFailsAtOnce ==
    [][\A r \in Reqs :
          req[r].st \in {"call", "thread"} /\ MalformedCommand(req[r].payload) =>
              /\ ~(req[r].pc = "clear" /\ req'[r].pc \notin {"clear", "done"})
              /\ req'[r].sent = <<>>
              /\ \A i \in 1..Len(req'[r].trace) : ~req'[r].trace[i].asked]_vars

(***************************************************************************)
(* The sanitizer on the transcript of one wrapped command.  The pane shows *)
(* the echoed command line, which tmux breaks into physical lines where    *)
(* the pane is narrow, then what the command printed, the status line and  *)
(* the next prompt.  execute is about to save the result.                  *)
(***************************************************************************)
\* the echoed line of the command ls with token 0
EchoLine == Prompt \o FullCommand(CmdLs, 0, 0)

\* the index of the ';' that starts the epilogue
EpilogueStart == Len(Prompt \o CmdLs) + 1

\* a break after character c of the echoed line, inside the epilogue
CutPoints == EpilogueStart..(Len(EchoLine) - 1)

\* the places of the line breaks: up to MaxCuts increasing cut points
CutSeqs ==
    UNION { { f \in [1..k -> CutPoints] : \A i \in 1..(k - 1) : f[i] < f[i + 1] } :
            k \in 0..MaxCuts }

\* the physical lines of a line broken after the characters cuts[from..]
RECURSIVE WrapLine(_, _, _, _)
WrapLine(line, cuts, from, start) ==
    IF from > Len(cuts) THEN <<SubSeq(line, start, Len(line))>>
    ELSE <<SubSeq(line, start, cuts[from])>>
            \o WrapLine(line, cuts, from + 1, cuts[from] + 1)

\* lines a command can print
OkLine == <<"o", "k">>
KeywordLine == Keyword \o <<"9", ":", "9">>
QuotedKeywordLine == <<"s", "e", "e", " ">> \o Keyword \o <<"9", ":", "9">>
BareKeywordLine == Keyword \o <<"9">>

\* what the command printed
Outputs ==
    { <<>>, <<OkLine>>, <<OkLine, KeywordLine>>, <<OkLine, QuotedKeywordLine>>,
      <<BareKeywordLine, OkLine>>, <<OkLine, OkLine, OkLine>> }

InitWrap ==
    /\ \E cuts \in CutSeqs, out \in Outputs :
          pane = WrapLine(EchoLine, cuts, 1, 1) \o out
                    \o <<MarkerName(0) \o <<":", "0">>, Prompt>>
    /\ typed = <<>>
    /\ shell = IdleShell
    /\ woken = {}
    /\ is_running_cmd = TRUE
    /\ command_counter = 1
    /\ issued = TokensUpTo(0)
    /\ req = [r \in Reqs |->
                IF r = 1
                THEN [NewReq EXCEPT !.st = "call", !.payload = PStr(CmdLs),
                                    !.pc = "save", !.held = TRUE,
                                    !.dret = "True", !.sent = <<0>>]
                ELSE NewReq]
    /\ last_output = NoneVal
    /\ epoch = 0
    /\ nextReq = MaxReq + 1
    /\ test_case = NoCase
    /\ rules = DefaultRules
    /\ executor = NoExecutor
    /\ client = ListeningClient
    /\ relay = NoRelay

NextWrap ==
    \/ Save(1, TRUE)
    \/ Finally(1)
    \/ CallReturn(1)

SpecWrap == InitWrap /\ [][NextWrap]_vars

\* the concatenation of the first k lines
RECURSIVE Glue(_, _)
Glue(lines, k) == IF k = 0 THEN <<>> ELSE Glue(lines, k - 1) \o lines[k]

\* the transcript of the pane with the echoed line in one piece
Unwrapped ==
    LET k == CHOOSE k \in 1..Len(pane) : Glue(pane, k) = EchoLine
    IN <<EchoLine>> \o SubSeq(pane, k + 1, Len(pane))

\* C16: broken into two, three or more physical lines inside the epilogue,
\* the echoed command line sanitizes to the same string as in one piece.
C16_WrapInvariance ==
    \A r \in Reqs :
        req[r].pc = "fin" /\ ~req[r].exc =>
            last_output = capture_clean_output(Unwrapped)

\* the number of physical lines the echoed command line takes in the pane
EchoPieces == CHOOSE k \in 1..Len(pane) : Glue(pane, k) = EchoLine

\* C17: a line printed by the command that contains TMUX_CMD_EXIT_CODE_,
\* at its start and followed by ':' included, and that does not come right
\* after the epilogue, is a line of the sanitized result, unchanged.
C17_GenuineLinesKept ==
    \A r \in Reqs :
        req[r].pc = "fin" /\ ~req[r].exc =>
            \A i \in (EchoPieces + 2)..(Len(pane) - 2) :
                Contains(pane[i], Keyword) =>
                    \E j \in 1..Len(Split(last_output, "\n")) :
                        Split(last_output, "\n")[j] = pane[i]

(***************************************************************************)
(* archived/test.py: clean_output, the sanitizer built on one regular      *)
(* expression.  The pattern is a sequence of items: a character that must  *)
(* be there, or WS for \s*, any run of blanks and line breaks.  The lazy   *)
(* .*? parts are the searches between the pieces of the pattern.           *)
(***************************************************************************)
WS == "\\s*"

\* _word_to_regex: the characters of the word with \s* between them
RECURSIVE word_to_regex(_)
word_to_regex(word) ==
    IF Len(word) <= 1 THEN word
    ELSE <<word[1], WS>> \o word_to_regex(Tail(word))

\* command_part up to its first .*? (lines 27-29)
command_head ==
    <<";", WS>> \o word_to_regex(<<"e", "c", "h", "o">>) \o <<WS, "\"", WS>>
        \o word_to_regex(Keyword)

\* command_part from :$? to the quote that opens the channel name (lines 30-35)
command_tail ==
    <<":", "$", "?", "\"", WS, ";", WS, WS>>
        \o word_to_regex(<<"t", "m", "u", "x">>) \o <<WS, WS>>
        \o word_to_regex(<<"w", "a", "i", "t", "-", "f", "o", "r">>)
        \o <<WS, "-", "S", WS, "\"">>

\* output_part after ^ and up to its .*? (lines 40-41)
output_head == <<WS>> \o word_to_regex(Keyword)

\* \s* at position i: the first position that holds no blank
RECURSIVE SkipSpace(_, _)
SkipSpace(t, i) ==
    IF i <= Len(t) /\ IsSpace(t[i]) THEN SkipSpace(t, i + 1) ELSE i

\* [\s\d]* at position i
RECURSIVE SkipSpaceDigits(_, _)
SkipSpaceDigits(t, i) ==
    IF i <= Len(t) /\ (IsSpace(t[i]) \/ IsDigit(t[i]))
    THEN SkipSpaceDigits(t, i + 1) ELSE i

\* the items pat[k..] matched at position i of t: the position after the
\* match, 0 when there is none
RECURSIVE MatchSeq(_, _, _, _)
MatchSeq(t, i, pat, k) ==
    IF k > Len(pat) THEN i
    ELSE IF pat[k] = WS THEN MatchSeq(t, SkipSpace(t, i), pat, k + 1)
    ELSE IF i <= Len(t) /\ t[i] = pat[k] THEN MatchSeq(t, i + 1, pat, k + 1)
    ELSE 0

\* the leftmost of a set of positions, 0 when the set is empty
Leftmost(S) == IF S = {} THEN 0 ELSE CHOOSE x \in S : \A y \in S : x <= y

\* .*?c : the first position >= i that holds the character c, 0 when none
FirstAt(t, i, c) == Leftmost({j \in i..Len(t) : t[j] = c})

\* command_tail matched at p and then .*?" : the position after the quote
\* that closes the channel name, 0 when there is no match
TailEnd(t, p) ==
    LET o == MatchSeq(t, p, command_tail, 1)
    IN IF o = 0 THEN 0
       ELSE LET q == FirstAt(t, o, "\"") IN IF q = 0 THEN 0 ELSE q + 1

\* the first .*? of command_part: the first p >= from where the rest matches
FindTail(t, from) ==
    LET p == Leftmost({j \in from..Len(t) : t[j] = ":" /\ TailEnd(t, j) # 0})
    IN IF p = 0 THEN 0 ELSE TailEnd(t, p)

\* a variant of CommandEnd that takes ;echo "TMUX_CMD_EXIT_CODE_ ... :$?"
\* for the whole command part
CommandEnd_EchoOnly(t, i) ==
    LET a == MatchSeq(t, i, command_head, 1)
    IN IF a = 0 THEN 0
       ELSE LET c == FirstAt(t, a, "?")
            IN IF c = 0 \/ c + 1 > Len(t) THEN 0 ELSE c + 2

\* command_part matched at position i: the position after it, 0 when none
CommandEnd(t, i) ==
    LET a == MatchSeq(t, i, command_head, 1)
    IN IF a = 0 THEN 0 ELSE FindTail(t, a)

\* a variant of OutputEnd that ends the status line at its ':'
OutputEnd_AtColon(t, g) ==
    IF g > 1 /\ t[g - 1] # "\n" THEN 0
    ELSE LET k == MatchSeq(t, g, output_head, 1)
         IN IF k = 0 THEN 0
            ELSE LET c == FirstAt(t, k, ":")
                 IN IF c = 0 THEN 0 ELSE c + 1

\* output_part matched at position g: the position after it, 0 when none;
\* ^ with re.MULTILINE holds at the start of the text and after a line break
OutputEnd(t, g) ==
    IF g > 1 /\ t[g - 1] # "\n" THEN 0
    ELSE LET k == MatchSeq(t, g, output_head, 1)
         IN IF k = 0 THEN 0
            ELSE LET c == FirstAt(t, k, ":")
                 IN IF c = 0 THEN 0 ELSE SkipSpaceDigits(t, c + 1)

\* group 2, (.*?): the first g >= from where output_part matches, 0 when none
FindOutput(t, from) ==
    Leftmost({g \in from..Len(t) : OutputEnd(t, g) # 0})

\* atomic_block_pattern matched at position i: the start of group 2 and
\* the start of group 3 when it matches, g = 0 when it does not
BlockAt(t, i) ==
    LET e == IF t[i] = ";" THEN CommandEnd(t, i) ELSE 0
    IN [e |-> e, g |-> IF e = 0 THEN 0 ELSE FindOutput(t, e)]

\* the leftmost position >= pos where atomic_block_pattern matches, 0 when none
NextBlock(t, pos) == Leftmost({i \in pos..Len(t) : BlockAt(t, i).g # 0})

\* the substitution applied to the first match only
SubOnce(t, pos) ==
    LET i == NextBlock(t, pos)
    IN IF i = 0 THEN SubSeq(t, pos, Len(t))
       ELSE LET b == BlockAt(t, i)
            IN SubSeq(t, pos, i - 1) \o SubSeq(t, b.e, b.g - 1)
                  \o SubSeq(t, OutputEnd(t, b.g), Len(t))

\* atomic_block_pattern.sub(r'\2', full_output) from position pos on: every
\* match, from left to right, is replaced by its group 2
RECURSIVE Sub(_, _)
Sub(t, pos) ==
    LET i == NextBlock(t, pos)
    IN IF i = 0 THEN SubSeq(t, pos, Len(t))
       ELSE LET b == BlockAt(t, i)
            IN SubSeq(t, pos, i - 1) \o SubSeq(t, b.e, b.g - 1)
                  \o Sub(t, OutputEnd(t, b.g))

\* a variant of clean_output that replaces the first match only
clean_output_FirstOnly(lines_iter) ==
    IF lines_iter = <<>> THEN <<>>
    ELSE Strip(SubOnce(JoinLines(lines_iter), 1))

clean_output(lines_iter) ==
    IF lines_iter = <<>> THEN <<>>
    ELSE Strip(Sub(JoinLines(lines_iter), 1))

\* the test loop: actual = clean_output(lines)
RunCase ==
    /\ ~test_case.run
    /\ test_case' = [test_case EXCEPT !.actual = clean_output(test_case.lines),
                                      !.run = TRUE]
    /\ UNCHANGED <<pane, typed, shell, woken, is_running_cmd, command_counter,
                   last_output, epoch, req, nextReq, issued, rules, executor,
                   client, relay>>

\* the state of the runner while the test file runs: nothing is in flight
NoRunner ==
    /\ pane = <<Prompt>>
    /\ typed = <<>>
    /\ shell = IdleShell
    /\ woken = {}
    /\ is_running_cmd = FALSE
    /\ command_counter = 0
    /\ last_output = NoneVal
    /\ epoch = 0
    /\ req = [r \in Reqs |-> NewReq]
    /\ nextReq = MaxReq + 1
    /\ issued = <<>>
    /\ rules = DefaultRules
    /\ executor = NoExecutor
    /\ client = ListeningClient
    /\ relay = NoRelay

\* a test case: the physical lines given to clean_output, and the logical
\* lines they were before the pane wrapped them
NewCase(lines, logical) ==
    [lines |-> lines, logical |-> logical, actual |-> <<>>, run |-> FALSE]

\* the status line of token 0 and exit code 0
StatusLine == MarkerName(0) \o <<":", "0">>

\* a break after character c of the status line
StatusCutSeqs ==
    UNION { { f \in [1..k -> 1..(Len(StatusLine) - 1)] :
                \A i \in 1..(k - 1) : f[i] < f[i + 1] } : k \in 0..MaxCuts }

\* the breaks of one transcript: those of the echoed line, those of the
\* status line, MaxCuts of them at most
TranscriptCuts ==
    { c \in CutSeqs \X StatusCutSeqs : Len(c[1]) + Len(c[2]) <= MaxCuts }

\* the transcript of one wrapped command, broken at the cuts c
WrappedTranscript(c, out) ==
    WrapLine(EchoLine, c[1], 1, 1) \o out
        \o WrapLine(StatusLine, c[2], 1, 1) \o <<Prompt>>

InitCleanWrap ==
    /\ NoRunner
    /\ \E c \in TranscriptCuts, out \in {<<>>, <<OkLine>>} :
          test_case = NewCase(WrappedTranscript(c, out),
                              WrappedTranscript(<< <<>>, <<>> >>, out))

SpecCleanWrap == InitCleanWrap /\ [][RunCase]_vars

\* C18: with line breaks inserted at any character boundaries of the
\* epilogue and of the status line, clean_output returns what it returns
\* for the unbroken transcript.
C18_CleanWrapInvariance ==
    test_case.run => test_case.actual = clean_output(test_case.logical)

(***************************************************************************)
(* clean_output on transcripts without a complete epilogue and on          *)
(* transcripts of several commands sent one after the other.               *)
(***************************************************************************)
\* the echoed line of a command sent without the rendezvous part
PartialEpilogueLine ==
    Prompt \o CmdLs \o <<";", "e", "c", "h", "o", " ", "\"">> \o MarkerName(0)
        \o <<":", "$", "?", "\"">>

\* lines of a transcript that holds no complete epilogue, and EchoLine
LookAlikeLines ==
    { OkLine, <<" ">>, KeywordLine, QuotedKeywordLine, PartialEpilogueLine,
      StatusLine, EchoLine }

LookAlikeTranscripts ==
    UNION { [1..n -> LookAlikeLines] : n \in 0..MaxLines }

\* what the pane shows for the command with token n: its echoed line, what
\* it printed, its status line
CommandBlock(n, out, e) ==
    <<Prompt \o FullCommand(CmdLs, n, n)>> \o out
        \o <<MarkerName(n) \o <<":">> \o NatToStr(e)>>

\* what one command can print and end with
BlockChoices ==
    {<<>>, <<OkLine>>, <<OkLine, QuotedKeywordLine>>} \X {0, 1}

\* the transcript of the commands with the tokens n, n + 1, ...
RECURSIVE Blocks(_, _)
Blocks(choices, n) ==
    IF choices = <<>> THEN <<>>
    ELSE CommandBlock(n, Head(choices)[1], Head(choices)[2])
            \o Blocks(Tail(choices), n + 1)

SequentialTranscripts ==
    { Blocks(c, 0) \o <<Prompt>> :
        c \in UNION { [1..k -> BlockChoices] : k \in 1..MaxCmds } }

InitClean ==
    /\ NoRunner
    /\ \E l \in LookAlikeTranscripts \cup SequentialTranscripts :
          test_case = NewCase(l, l)

SpecClean == InitClean /\ [][RunCase]_vars

\* a text without its blanks and line breaks
Squeeze(t) == SelectSeq(t, LAMBDA c : ~IsSpace(c))

\* the positions where the text p stands in the text u
Places(u, p) ==
    {a \in 1..(Len(u) - Len(p) + 1) : SubSeq(u, a, a + Len(p) - 1) = p}

\* the text holds a complete epilogue ;echo "TMUX_CMD_EXIT_CODE_...:$?";tmux
\* wait-for -S "...", blanks and line breaks aside
HasEpilogue(t) ==
    LET u == Squeeze(t)
        opening == Squeeze(JunkMarker)
        middle == <<":", "$", "?", "\"", ";">> \o Squeeze(WaitForS) \o <<"\"">>
    IN \E a \in Places(u, opening), b \in Places(u, middle) :
          /\ a + Len(opening) <= b
          /\ \E c \in (b + Len(middle))..Len(u) : u[c] = "\""

\* C19: a transcript without a complete epilogue, lines with the text
\* TMUX_CMD_EXIT_CODE_<n>:<digits> included, comes back as its lines joined
\* by line breaks and trimmed at both ends; the empty transcript gives the
\* empty string.
C19_LookAlikesLeftAlone ==
    test_case.run /\ ~HasEpilogue(JoinLines(test_case.lines)) =>
        test_case.actual =
            IF test_case.lines = <<>> THEN <<>>
            ELSE Strip(JoinLines(test_case.lines))

\* an echoed line without the rendezvous part, followed by a status line,
\* came back as it was
C19_Witness ==
    /\ test_case.run
    /\ test_case.lines = <<PartialEpilogueLine, StatusLine, KeywordLine>>
    /\ test_case.actual = JoinLines(test_case.lines)

\* the lines of a transcript that are status lines
StatusLinesOf(lines) ==
    {i \in 1..Len(lines) : StartsWith(lines[i], Keyword)}

\* a transcript of sequential wrapped commands: what was echoed for each
\* command before its epilogue, and what was printed, in their order
RECURSIVE EchoedAndPrinted(_, _)
EchoedAndPrinted(lines, i) ==
    IF i > Len(lines) THEN <<>>
    ELSE IF i \in StatusLinesOf(lines) THEN EchoedAndPrinted(lines, i + 1)
    ELSE IF Contains(lines[i], <<";">>)
    THEN <<SubSeq(lines[i], 1, Find(lines[i], <<";">>) - 1)>>
            \o EchoedAndPrinted(lines, i + 1)
    ELSE <<lines[i]>> \o EchoedAndPrinted(lines, i + 1)

\* the test case is a transcript of sequential wrapped commands
IsSequential == test_case.lines \in SequentialTranscripts

DigitsLine == <<"1", "2", " ", "f", "i", "l", "e", "s">>
IndentedLine == <<" ", " ", "x">>

\* what the command printed
ExactOutputs == Outputs \cup { <<IndentedLine>>, <<OkLine, <<>>, OkLine>> }

\* what the pane shows after the status line: the next prompt, or lines of a
\* job that is still printing and then the prompt
Followers ==
    { <<Prompt>>, <<DigitsLine, Prompt>>, <<IndentedLine, Prompt>>,
      <<OkLine, Prompt>>, << <<>>, OkLine, Prompt >> }

\* the transcript of the command ls with token 0
ExactTranscript(out, e, follow) == CommandBlock(0, out, e) \o follow

\* the text prompt echo bbb, the line bbb, the line prompt
PromptEchoBbb ==
    <<"p", "r", "o", "m", "p", "t", " ", "e", "c", "h", "o", " ", "b", "b", "b">>
Bbb == <<"b", "b", "b">>
PromptWord == <<"p", "r", "o", "m", "p", "t">>

\* the text wait -S
WaitS == <<"w", "a", "i", "t", " ", "-", "S">>

\* the lines of test case 4 in one piece, with the text `signal` for the
\* command that emits the signal
RoundTripLines(signal) ==
    << PromptEchoBbb \o <<";", "e", "c", "h", "o", " ", "\"">> \o MarkerName(127)
          \o <<":", "$", "?", "\"", ";">> \o signal
          \o <<" ", "\"", "i", "d", "-", "1", "2", "3", "\"">>,
       Bbb,
       MarkerName(127) \o <<":">> \o NatToStr(127),
       PromptWord >>

InitExact ==
    /\ NoRunner
    /\ \E l \in { ExactTranscript(out, e, f) :
                     out \in ExactOutputs, e \in {0, 1}, f \in Followers }
                \cup { RoundTripLines(WaitS), RoundTripLines(WaitForS) } :
          test_case = NewCase(l, l)

SpecExact == InitExact /\ [][RunCase]_vars

\* C21: of the transcript of a wrapped command clean_output deletes the
\* epilogue and the status line and nothing else: the command echo, every
\* line the command printed and the lines after the status line come back
\* verbatim and in order, up to the final trim.
C21_OnlyEpilogueAndStatusDeleted ==
    \A out \in ExactOutputs, e \in {0, 1}, f \in Followers :
        test_case.run /\ test_case.lines = ExactTranscript(out, e, f) =>
            test_case.actual = Strip(JoinLines(<<Prompt \o CmdLs>> \o out \o f))

\* what the round trip scenario sanitizes to
RoundTripResult == JoinLines(<<PromptEchoBbb, Bbb, PromptWord>>)

\* C22 as stated: the lines with the epilogue ;echo "TMUX_CMD_EXIT_CODE_127:$?"
\* ;wait -S "id-123", then bbb, the status line and prompt sanitize to
\* prompt echo bbb, bbb, prompt.
C22_RoundTripWaitS ==
    test_case.run /\ test_case.lines = RoundTripLines(WaitS) =>
        test_case.actual = RoundTripResult

\* C22 as amended: with the epilogue ;echo "TMUX_CMD_EXIT_CODE_127:$?";tmux
\* wait-for -S "id-123" the lines sanitize to prompt echo bbb, bbb, prompt;
\* with ;wait -S "id-123" in its place nothing is an epilogue and the lines
\* come back joined and unchanged.
C22_RoundTripTmuxWaitFor ==
    test_case.run =>
        /\ test_case.lines = RoundTripLines(WaitForS) =>
              test_case.actual = RoundTripResult
        /\ test_case.lines = RoundTripLines(WaitS) =>
              test_case.actual = JoinLines(RoundTripLines(WaitS))

\* the scenario with tmux wait-for -S was sanitized
C22_Witness ==
    /\ test_case.run
    /\ test_case.lines = RoundTripLines(WaitForS)
    /\ test_case.actual = RoundTripResult

(***************************************************************************)
(* capture_clean_output on the transcript of a command that prints blank   *)
(* lines between two lines of text.  execute is about to save the result.  *)
(***************************************************************************)
\* a line the command prints: text, an empty line, a line of one blank
BlankChoices == { OkLine, <<>>, <<" ">> }

\* what the command prints between its first and its last line
Middles == UNION { [1..n -> BlankChoices] : n \in 0..MaxLines }

InitBlank ==
    /\ \E mid \in Middles :
          pane = <<EchoLine, OkLine>> \o mid \o <<OkLine, StatusLine, Prompt>>
    /\ typed = <<>>
    /\ shell = IdleShell
    /\ woken = {}
    /\ is_running_cmd = TRUE
    /\ command_counter = 1
    /\ issued = TokensUpTo(0)
    /\ req = [r \in Reqs |->
                IF r = 1
                THEN [NewReq EXCEPT !.st = "call", !.payload = PStr(CmdLs),
                                    !.pc = "save", !.held = TRUE,
                                    !.dret = "True", !.sent = <<0>>]
                ELSE NewReq]
    /\ last_output = NoneVal
    /\ epoch = 0
    /\ nextReq = MaxReq + 1
    /\ test_case = NoCase
    /\ rules = DefaultRules
    /\ executor = NoExecutor
    /\ client = ListeningClient
    /\ relay = NoRelay

SpecBlank == InitBlank /\ [][NextWrap]_vars

\* the blank lines among the lines
BlankLines(lines) == {i \in 1..Len(lines) : Strip(lines[i]) = <<>>}

\* C23: blank lines the command printed, a run of two or more of them
\* included, none of them next to the epilogue or the status line, are in
\* the saved result in the same number.
C23_BlankRunsKept ==
    \A r \in Reqs :
        req[r].pc = "fin" /\ ~req[r].exc =>
            Cardinality(BlankLines(Split(last_output, "\n")))
                = Cardinality(BlankLines(pane))

(***************************************************************************)
(* clean_output applied to its own result.  The transcripts are made of    *)
(* echoed command lines, status lines and lines of output in any order: a  *)
(* line typed while the command before it is still running is echoed       *)
(* before that command's status line.                                      *)
(***************************************************************************)
IdemLines == { EchoLine, StatusLine, OkLine }

IdemTranscripts == UNION { [1..n -> IdemLines] : n \in 0..(MaxLines + 1) }

InitIdem ==
    /\ NoRunner
    /\ \E l \in IdemTranscripts : test_case = NewCase(l, l)

SpecIdem == InitIdem /\ [][RunCase]_vars

\* C24: clean_output applied to the lines of its result returns the result
\* again: one pass leaves no marker text that a second pass would strip.
C24_Idempotent ==
    test_case.run =>
        clean_output(Split(test_case.actual, "\n")) = test_case.actual

(***************************************************************************)
(* SpecPolicy: rules are added to the policy while one call of execute,    *)
(* whose command has ended and whose rendezvous has returned, is about to  *)
(* read the exit code and to consult the policy.                           *)
(***************************************************************************)
CmdDiff == <<"d", "i", "f", "f", " ", "a">>

\* the command texts given to execute
PolicyCommands == { CmdGrep, <<" ">> \o CmdGrep, CmdDiff, CmdLs }

\* the prefixes and the accepted codes given to add_rule
PolicyPrefixes == { <<"g">>, <<"g", "r", "e", "p">>, <<"l">>, <<"l", "s">> }

PolicyCodes == { {0}, {1}, {0, 1} }

\* ExecutionPolicy.add_rule(command_prefix, accepted_codes)
AddRule(command_prefix, accepted_codes) ==
    /\ rules' = add_rule(rules, command_prefix, accepted_codes)
    /\ UNCHANGED <<pane, typed, shell, woken, is_running_cmd, command_counter,
                   last_output, epoch, req, nextReq, issued, test_case, executor,
                   client, relay>>

InitPolicy ==
    /\ \E c \in PolicyCommands, e \in {0, 1} :
          /\ pane = <<Prompt \o FullCommand(c, 0, 0)>> \o OutputOf(e)
                       \o StatusLines(0, e, FALSE) \o <<Prompt>>
          /\ req = [r \in Reqs |->
                      IF r = 1
                      THEN [NewReq EXCEPT !.st = "call", !.payload = PStr(c),
                                          !.pc = "capture", !.held = TRUE,
                                          !.sent = <<0>>]
                      ELSE NewReq]
    /\ typed = <<>>
    /\ shell = IdleShell
    /\ woken = {}
    /\ is_running_cmd = TRUE
    /\ command_counter = 1
    /\ issued = TokensUpTo(0)
    /\ last_output = NoneVal
    /\ epoch = 0
    /\ nextReq = MaxReq + 1
    /\ test_case = NoCase
    /\ rules = DefaultRules
    /\ executor = NoExecutor
    /\ client = ListeningClient
    /\ relay = NoRelay

NextPolicy ==
    \/ \E command_prefix \in PolicyPrefixes, accepted_codes \in PolicyCodes :
          AddRule(command_prefix, accepted_codes)
    \/ \E answer \in RelayAnswers \cup {<<>>} : Capture(1, answer)
    \/ Save(1, TRUE)
    \/ Finally(1)
    \/ CallReturn(1)

SpecPolicy == InitPolicy /\ [][NextPolicy]_vars

\* the registered prefixes, in their matching order
Prefixes(table) == [i \in 1..Len(table) |-> table[i].prefix]

\* the entries of the table whose prefix the trimmed command starts with
Hits(table, command_string) ==
    {i \in 1..Len(table) : StartsWith(Strip(command_string), table[i].prefix)}

\* the accepted codes of the earliest-registered prefix that matches, the
\* default set when none does
EarliestMatch(table, command_string) ==
    IF Hits(table, command_string) = {} THEN {0}
    ELSE table[Smallest(Hits(table, command_string))].codes

\* the command starts with grep or with diff
GrepOrDiff(command_string) ==
    \/ StartsWith(Strip(command_string), <<"g", "r", "e", "p">>)
    \/ StartsWith(Strip(command_string), <<"d", "i", "f", "f">>)

\* C25: get_accepted_codes returns the accepted codes of the
\* earliest-registered prefix that the trimmed command starts with and {0}
\* when no prefix matches; a command whose exit code was found is escalated
\* exactly when that set does not hold the code, so with the default table
\* exit code 1 is success for grep and diff and is escalated for any other
\* command.
C25_EarliestPrefixWins ==
    [][/\ \A c \in PolicyCommands :
             /\ get_accepted_codes(rules, c) = EarliestMatch(rules, c)
             /\ get_accepted_codes(rules', c) = EarliestMatch(rules', c)
             /\ rules = DefaultRules =>
                   get_accepted_codes(rules, c)
                       = IF GrepOrDiff(c) THEN {0, 1} ELSE {0}
       /\ \A r \in Reqs :
             req[r].pc = "capture" /\ req'[r].pc # "capture" =>
                 LET t == req'[r].trace[Len(req'[r].trace)]
                 IN /\ t.ec # -1
                    /\ t.asked <=> t.ec \notin EarliestMatch(rules, Cmd(req[r]))
                    /\ ~t.asked => t.outcome
                    /\ rules = DefaultRules /\ t.ec = 1 =>
                          (t.asked <=> ~GrepOrDiff(Cmd(req[r])))]_vars

\* after add_rule("g", [0]) the command grep x ended with 1 and was taken
\* as a success without the decision point: the rule for grep came first
C25_Witness ==
    /\ rules = Append(DefaultRules, [prefix |-> <<"g">>, codes |-> {0}])
    /\ req[1].payload = PStr(CmdGrep)
    /\ req[1].pc = "save"
    /\ req[1].trace[1].ec = 1
    /\ ~req[1].trace[1].asked
    /\ req[1].trace[1].outcome

\* the accepted codes registered for a prefix, as a set: empty when the
\* prefix is not registered
CodesOf(table, command_prefix) ==
    {table[i].codes : i \in {j \in 1..Len(table) : table[j].prefix = command_prefix}}

\* C26: add_rule(prefix, codes) makes codes the accepted set of the prefix,
\* in the place the prefix had when it was registered before and after all
\* others when it is new; the accepted sets and the matching order of the
\* other prefixes stay, and so does what get_accepted_codes returns for
\* every command that does not start with the prefix, the default set
\* included.
C26_AddRuleFrame ==
    [][rules' # rules =>
          \E p \in PolicyPrefixes, codes \in PolicyCodes :
              /\ CodesOf(rules', p) = {codes}
              /\ Prefixes(rules') =
                    IF CodesOf(rules, p) # {} THEN Prefixes(rules)
                    ELSE Append(Prefixes(rules), p)
              /\ \A i \in 1..Len(rules) :
                    rules[i].prefix # p => rules'[i] = rules[i]
              /\ \A c \in PolicyCommands :
                    ~StartsWith(Strip(c), p) =>
                        get_accepted_codes(rules', c) = get_accepted_codes(rules, c)
              /\ get_accepted_codes(rules', <<"x">>) = {0}]_vars

\* the rule for grep was replaced in its place after the rule for g was added
C26_Witness ==
    /\ Len(rules) = 3
    /\ rules[1] = [prefix |-> <<"g", "r", "e", "p">>, codes |-> {1}]
    /\ rules[3] = [prefix |-> <<"g">>, codes |-> {0, 1}]

(***************************************************************************)
(* run_cmd.py: CommandExecutor.run(stream_output=True).  The child process *)
(* writes lines to two pipes and blocks on a full pipe; one reader thread  *)
(* per pipe appends what it reads to its list; the main thread joins the   *)
(* two readers, waits for the child and builds the result.                 *)
(***************************************************************************)
Streams == {"out", "err"}

LineA == <<"a", "\n">>
LineB == <<"b", "\n">>

\* what a child process writes: a stream and a line, write after write
Programs ==
    UNION { [1..n -> [stream : Streams, line : {LineA, LineB}]] : n \in 0..MaxWrites }

\* "".join(lines)
RECURSIVE JoinAll(_)
JoinAll(lines) == IF lines = <<>> THEN <<>> ELSE Head(lines) \o JoinAll(Tail(lines))

\* reset(...) and run(True) up to subprocess.Popen (lines 26-43, 60-64)
Popen(program, rc) ==
    /\ executor.pc = "new"
    /\ executor' = [executor EXCEPT !.pc = "start_out", !.program = program,
                                    !.rc = rc]
    /\ UNCHANGED <<pane, typed, shell, woken, is_running_cmd, command_counter,
                   last_output, epoch, req, nextReq, issued, test_case, rules,
                   client, relay>>

\* Popen raises: run catches the exception and makes the result itself
\* (lines 44-47); no thread was started
PopenRaises(code) ==
    /\ executor.pc = "new"
    /\ executor' = [executor EXCEPT !.pc = "failed",
                       !.result = [returncode |-> code, stdout |-> <<>>,
                                   stderr |-> <<"!">>, made |-> TRUE]]
    /\ UNCHANGED <<pane, typed, shell, woken, is_running_cmd, command_counter,
                   last_output, epoch, req, nextReq, issued, test_case, rules,
                   client, relay>>

\* lines 67-68: thread_stdout.start(), thread_stderr.start()
StartReader(s) ==
    /\ executor.pc = IF s = "out" THEN "start_out" ELSE "start_err"
    /\ executor' = [executor EXCEPT !.pc = IF s = "out" THEN "start_err" ELSE "join_out",
                                    !.reader[s] = "running"]
    /\ UNCHANGED <<pane, typed, shell, woken, is_running_cmd, command_counter,
                   last_output, epoch, req, nextReq, issued, test_case, rules,
                   client, relay>>

\* the child writes its next line; it blocks while the pipe is full
ChildWrite ==
    /\ executor.pc \notin {"new", "failed"}
    /\ executor.todo <= Len(executor.program)
    /\ LET w == executor.program[executor.todo]
       IN /\ Len(executor.pipe[w.stream]) < PipeCap
          /\ executor' = [executor EXCEPT !.pipe[w.stream] = Append(@, w.line),
                                          !.todo = @ + 1]
    /\ UNCHANGED <<pane, typed, shell, woken, is_running_cmd, command_counter,
                   last_output, epoch, req, nextReq, issued, test_case, rules,
                   client, relay>>

\* the child exits; the write ends of its pipes are closed
ChildExit ==
    /\ executor.pc \notin {"new", "failed"}
    /\ executor.todo > Len(executor.program)
    /\ ~executor.exited
    /\ executor' = [executor EXCEPT !.exited = TRUE]
    /\ UNCHANGED <<pane, typed, shell, woken, is_running_cmd, command_counter,
                   last_output, epoch, req, nextReq, issued, test_case, rules,
                   client, relay>>

\* _stream_reader (lines 52-57): readline gives the next line, which is
\* appended to output_lines; at the end of the stream the loop ends and the
\* stream is closed
StreamReader(s) ==
    /\ executor.reader[s] = "running"
    /\ IF executor.pipe[s] # <<>>
       THEN executor' = [executor EXCEPT !.lines[s] = Append(@, Head(executor.pipe[s])),
                                         !.pipe[s] = Tail(@)]
       ELSE /\ executor.exited
            /\ executor' = [executor EXCEPT !.reader[s] = "ended"]
    /\ UNCHANGED <<pane, typed, shell, woken, is_running_cmd, command_counter,
                   last_output, epoch, req, nextReq, issued, test_case, rules,
                   client, relay>>

\* a variant of Joined: join returns without waiting for the thread
Joined_NoWait(s) == TRUE

\* Thread.join returns when the thread has ended
Joined(s) == executor.reader[s] = "ended"

\* lines 69-70: thread_stdout.join(), thread_stderr.join()
JoinReader(s) ==
    /\ executor.pc = IF s = "out" THEN "join_out" ELSE "join_err"
    /\ Joined(s)
    /\ executor' = [executor EXCEPT !.pc = IF s = "out" THEN "join_err" ELSE "wait"]
    /\ UNCHANGED <<pane, typed, shell, woken, is_running_cmd, command_counter,
                   last_output, epoch, req, nextReq, issued, test_case, rules,
                   client, relay>>

\* line 71: process.wait()
ProcessWait ==
    /\ executor.pc = "wait"
    /\ executor.exited
    /\ executor' = [executor EXCEPT !.pc = "result"]
    /\ UNCHANGED <<pane, typed, shell, woken, is_running_cmd, command_counter,
                   last_output, epoch, req, nextReq, issued, test_case, rules,
                   client, relay>>

\* lines 72-75: self._result = CompletedProcess(...)
MakeResult ==
    /\ executor.pc = "result"
    /\ executor' = [executor EXCEPT !.pc = "done",
                       !.result = [returncode |-> executor.rc,
                                   stdout |-> JoinAll(executor.lines["out"]),
                                   stderr |-> JoinAll(executor.lines["err"]),
                                   made |-> TRUE]]
    /\ UNCHANGED <<pane, typed, shell, woken, is_running_cmd, command_counter,
                   last_output, epoch, req, nextReq, issued, test_case, rules,
                   client, relay>>

InitStream == NoRunner /\ test_case = NoCase

NextStream ==
    \/ \E program \in Programs, rc \in {0, 1} : Popen(program, rc)
    \/ \E code \in {-1, -2} : PopenRaises(code)
    \/ \E s \in Streams : StartReader(s)
    \/ ChildWrite
    \/ ChildExit
    \/ \E s \in Streams : StreamReader(s)
    \/ \E s \in Streams : JoinReader(s)
    \/ ProcessWait
    \/ MakeResult

SpecStream == InitStream /\ [][NextStream]_vars

\* the lines the child writes to a stream, in the order of its writes
WrittenTo(s) ==
    LET ws == SelectSeq(executor.program, LAMBDA w : w.stream = s)
    IN [i \in 1..Len(ws) |-> ws[i].line]

Shown(lines) ==
    \E i \in 0..(Len(pane) - Len(lines)) : SubSeq(pane, i + 1, i + Len(lines)) = lines

\* the status echo of the command with sequence number mk is in the transcript
EchoedStatus(mk) ==
    \E e \in {0, 1}, wrapped \in BOOLEAN : Shown(StatusLines(mk, e, wrapped))

\* C28: a call comes to the scan of the transcript only by a signal on its
\* command's channel, emitted by the shell after the status echo of the
\* wrapped line, and when it scans, the status echo of its command is in
\* the transcript.
C28_ScanAfterSignal ==
    [][/\ \A r \in Reqs :
             /\ req[r].pc # "capture" /\ req'[r].pc = "capture" =>
                   \/ shell.st = "sig" /\ shell.ch = req[r].ch
                   \/ req[r].ch \in woken
             /\ req[r].pc = "capture" /\ req'[r].pc # "capture" =>
                   EchoedStatus(req[r].mk)
       /\ woken' \ woken # {} =>
             shell.st = "sig" /\ woken' = woken \cup {shell.ch}]_vars

(***************************************************************************)
(* SpecFair: the receiver with requests for the command ls, which ends     *)
(* with 0, and a scheduler that lets every thread, the event loop and the  *)
(* shell of the pane run; an escalation is answered with n.                *)
(***************************************************************************)
FairOutcomes == { [e |-> 0, wrapped |-> FALSE] }

FairAnswers == { <<"n">> }

NextFair ==
    \/ OnMessage(PStr(CmdLs))
    \/ \E r \in Reqs : TaskStart(r)
    \/ \E r \in Reqs : TaskReply(r)
    \/ \E r \in Reqs : Thread(r, {TRUE}, FairAnswers)
    \/ Shell(FairOutcomes)

\* the steps of execute in a thread other than the scan and the save
Moves(r, oks) ==
    \/ ExecCheck(r)
    \/ ExecSet(r)
    \/ \E ok \in oks : ExecClear(r, ok)
    \/ ReadChannel(r)
    \/ ReadMarker(r)
    \/ IncRead(r)
    \/ IncWrite(r)
    \/ \E ok \in oks : SendKeys(r, ok)
    \/ \E ok \in oks : WaitFor(r, ok)
    \/ Finally(r)

\* Capture and Save are enabled exactly at the positions capture and save
\* and leave them: their weak fairness is that no thread stays there forever
SpecFair ==
    /\ Init
    /\ [][NextFair]_vars
    /\ WF_vars(Shell(FairOutcomes))
    /\ \A r \in Reqs :
          /\ WF_vars(Moves(r, {TRUE}))
          /\ []<>(req[r].pc # "capture")
          /\ []<>(req[r].pc # "save")
          /\ WF_vars(TaskStart(r) \/ TaskReply(r))

\* the signal for the channel of the call's command has been emitted: the
\* call was woken from its wait, or it is about to wait on a channel that
\* is signalled
Signalled(r) ==
    \/ req[r].pc = "capture"
    \/ req[r].pc = "wait" /\ req[r].ch \in woken

\* the call of execute has ended
Ended(r) == req[r].pc = "done" \/ req[r].st \in {"replied", "returned"}

\* C29: once the shell has emitted the signal for the channel of a call's
\* command, before or after the call starts to wait, the wait returns and
\* execute ends.
C29_NoLostWakeUp ==
    \A r \in Reqs : Signalled(r) ~> Ended(r)

(***************************************************************************)
(* SpecSeq: a script calls execute with one batch of MaxSeq + 1 commands   *)
(* on a fresh terminal, so the commands get the sequence numbers 0 to      *)
(* MaxSeq and the pane holds the status lines of all of them.              *)
(***************************************************************************)
SeqBatch == PList([i \in 1..(MaxSeq + 1) |-> StrItem(CmdGrep)])

\* the commands whose end is chosen freely
FreeSeqs == {1, MaxSeq}

\* how the command of sequence number n can end: the others end with 0 or
\* 1 in turn, in a pane wide enough for their status line
SeqOutcomes(n) ==
    IF n \in FreeSeqs
    THEN [e : {0, 1}, wrapped : BOOLEAN]
    ELSE {[e |-> n % 2, wrapped |-> FALSE]}

NextSeq ==
    \/ Call(SeqBatch)
    \/ \E r \in Reqs : CallReturn(r)
    \/ \E r \in Reqs : Thread(r, {TRUE}, RelayAnswers)
    \/ ShellStart
    \/ \E o \in SeqOutcomes(shell.mk) : ShellFinish(o)
    \/ ShellSignal

SpecSeq == Init /\ [][NextSeq]_vars

\* the codes e for which the pane shows the whole line "<marker of n>:e"
EchoedCodes(n) ==
    {e \in 0..2 : \E i \in 1..Len(pane) : pane[i] = StatusLines(n, e, FALSE)[1]}

\* the sequence numbers other than n whose status line the pane shows
OtherSeqs(n) == {j \in 0..(MaxReq * (MaxSeq + 1)) : j # n /\ EchoedCodes(j) # {}}

\* the exit code _execute_str has just recorded for its command
Attributed(rec) == rec.trace[Len(rec.trace)].ec

\* C30: when the scan for the command with sequence number k runs on a pane
\* that shows status lines of other commands of the dispatch, the exit code
\* it records is the one of k's own status line, and -1 when the pane shows
\* no whole status line of k; it is never taken from the line of another
\* sequence number, also when k's marker is a prefix of that marker.
C30_OwnStatusLine ==
    [][\A r \in Reqs :
          req[r].pc = "capture" /\ req'[r].pc # "capture"
          /\ OtherSeqs(req[r].mk) # {} =>
              /\ EchoedCodes(req[r].mk) # {} =>
                    Attributed(req'[r]) \in EchoedCodes(req[r].mk)
              /\ EchoedCodes(req[r].mk) = {} => Attributed(req'[r]) = -1]_vars

\* the command 1 ended with 1 and the command MaxSeq with 0; the pane shows
\* both status lines and each command got its own code
C30_Witness ==
    \E r \in Reqs :
        /\ EchoedCodes(1) = {1}
        /\ EchoedCodes(MaxSeq) = {0}
        /\ \E a, b \in 1..Len(req[r].trace) :
              /\ req[r].trace[a].seq = 1 /\ req[r].trace[a].ec = 1
              /\ req[r].trace[b].seq = MaxSeq /\ req[r].trace[b].ec = 0

(***************************************************************************)
(* The reply of the receiver and the result store.                         *)
(***************************************************************************)
\* C31: the result of a success reply is the output that the save of the
\* request's own execute call wrote: when the reply is built, the store
\* was last written by that call.
C31_ReplyCarriesOwnOutput ==
    [][\A r \in Reqs :
          req[r].st = "thread" /\ req'[r].st = "replied"
          /\ req'[r].reply.success =>
              /\ req[r].fresh
              /\ req'[r].reply.result = last_output]_vars

(***************************************************************************)
(* WebSocketClient (websocket_client.py): connect loops for ever over      *)
(* websockets.connect, the identity message and listen.  The network is    *)
(* the environment: an attempt fails, an open connection is lost, a frame  *)
(* arrives.                                                                *)
(***************************************************************************)
runner_vars == <<pane, typed, shell, woken, is_running_cmd, command_counter,
                 last_output, epoch, req, nextReq, issued, test_case,
                 rules, executor>>

\* line 16: self.websocket = await websockets.connect(self.uri);
\* ok = FALSE: the attempt raises, lines 25-28
Connect(ok) ==
    /\ client.pc = "connect"
    /\ IF ok
       THEN client' = [client EXCEPT !.pc = "identify", !.ws = "open",
                                     !.inbox = <<>>,
                                     !.attempts = @ + 1,
                                     !.log = Append(@, Event("connected", 0))]
       ELSE /\ client.faults < MaxFaults
            /\ client' = [client EXCEPT !.pc = "sleep", !.attempts = @ + 1,
                                        !.faults = @ + 1]
    /\ UNCHANGED <<runner_vars, relay>>

\* line 20: await self.websocket.send(json.dumps({"client_id": ...})); on a
\* connection that is closed by now send raises, lines 25-28
Identify ==
    /\ client.pc = "identify"
    /\ client' = IF client.ws = "open"
                 THEN [client EXCEPT !.pc = "listen",
                                     !.log = Append(@, Event("identity", 0))]
                 ELSE [client EXCEPT !.pc = "sleep"]
    /\ UNCHANGED <<runner_vars, relay>>

\* line 28: await asyncio.sleep(5) is over, the loop of line 13 goes on
Wake ==
    /\ client.pc = "sleep"
    /\ client' = [client EXCEPT !.pc = "connect"]
    /\ UNCHANGED <<runner_vars, relay>>

\* a variant of NextFrame that takes the newest frame
NextFrame_Newest(inbox) == inbox[Len(inbox)]

\* line 37: async for message in self.websocket gives the oldest frame
NextFrame(inbox) == Head(inbox)

\* lines 37-40 with the on_message of the class (lines 49-51): the frame is
\* printed and put into event_queue; the next frame is taken when
\* on_message has returned
Listen ==
    /\ client.pc = "listen"
    /\ client.inbox # <<>>
    /\ LET message == NextFrame(client.inbox)
       IN client' = [client EXCEPT
                        !.inbox = SelectSeq(@, LAMBDA f : f # message),
                        !.log = Append(@, Event("frame", message))]
    /\ UNCHANGED <<runner_vars, relay>>

\* a variant of OnClosed: connect returns when listen has returned
OnClosed_Returns(c) == [c EXCEPT !.pc = "stopped"]

\* lines 41-42 and 13: ConnectionClosed is caught in listen, listen returns
\* and the loop of connect goes on with the next attempt, without a sleep
OnClosed(c) == [c EXCEPT !.pc = "connect"]

\* the iteration of line 37 ends on a closed connection with no frame left
ListenEnds ==
    /\ client.pc = "listen"
    /\ client.inbox = <<>>
    /\ client.ws = "closed"
    /\ client' = OnClosed(client)
    /\ UNCHANGED <<runner_vars, relay>>

\* the connection is lost; keep = the frames received before the loss are
\* still given to the iteration
ConnectionLost(keep) ==
    /\ client.ws = "open"
    /\ client.faults < MaxFaults
    /\ client' = [client EXCEPT !.ws = "closed", !.faults = @ + 1,
                                !.inbox = IF keep THEN @ ELSE <<>>]
    /\ UNCHANGED <<runner_vars, relay>>

\* a frame arrives on the open connection
Arrive ==
    /\ client.ws = "open"
    /\ client.frames < MaxFrames
    /\ client' = [client EXCEPT !.frames = @ + 1,
                                !.inbox = Append(@, client.frames + 1)]
    /\ UNCHANGED <<runner_vars, relay>>

\* the steps of the coroutine connect outside on_message
ClientLoop ==
    \/ \E ok \in BOOLEAN : Connect(ok)
    \/ Identify
    \/ Wake
    \/ ListenEnds

\* the steps of the coroutine connect
ClientStep ==
    \/ ClientLoop
    \/ Listen

(***************************************************************************)
(* SpecClient: websocket_client.py run as a script: one WebSocketClient    *)
(* with the on_message of the class.                                       *)
(***************************************************************************)
InitClient ==
    /\ pane = <<Prompt>>
    /\ typed = <<>>
    /\ shell = IdleShell
    /\ woken = {}
    /\ is_running_cmd = FALSE
    /\ command_counter = 0
    /\ last_output = NoneVal
    /\ epoch = 0
    /\ req = [r \in Reqs |-> NewReq]
    /\ nextReq = MaxReq + 1
    /\ issued = <<>>
    /\ test_case = NoCase
    /\ rules = DefaultRules
    /\ executor = NoExecutor
    /\ client = NewClient
    /\ relay = NoRelay

NextClient ==
    \/ ClientStep
    \/ \E keep \in BOOLEAN : ConnectionLost(keep)
    \/ Arrive

\* the event loop runs a coroutine that can go on
SpecClient == InitClient /\ [][NextClient]_vars /\ WF_vars(ClientStep)

\* the events of the log that are frames
FramesAt(log) == {i \in 1..Len(log) : log[i].e = "frame"}

\* C36: after a failed attempt and after the loss of a connection another
\* attempt to connect follows; every frame passed to on_message comes after
\* the identity message of its connection; the frames are passed in the
\* order of their arrival.
C36_ReconnectIdentifyInOrder ==
    /\ \A n \in 0..(2 * MaxFaults + 1) :
          (client.attempts = n /\ (client.pc = "sleep" \/ client.ws = "closed"))
              ~> (client.attempts > n)
    /\ [](\A i \in FramesAt(client.log) :
              \E j \in 1..(i - 1) :
                  /\ client.log[j].e = "identity"
                  /\ \A k \in (j + 1)..(i - 1) : client.log[k].e = "frame")
    /\ [](\A i, j \in FramesAt(client.log) :
              i < j => client.log[i].n < client.log[j].n)

\* two connections were made after a failed attempt and a loss, and frames
\* were passed to on_message on both
C36_Witness ==
    /\ client.faults = MaxFaults
    /\ client.attempts >= 3
    /\ \E i, j, k \in 1..Len(client.log) :
          /\ i < j /\ j < k
          /\ client.log[i].e = "frame"
          /\ client.log[j].e = "connected"
          /\ client.log[k].e = "frame"

(***************************************************************************)
(* SpecReply: the receiver process with its connection to the relay        *)
(* server: requests arrive while the client listens, the replies go out    *)
(* through send_message, and the connection can be lost at any time.       *)
(***************************************************************************)
ReplyPayloads == {PStr(CmdLs), POther}

NextReply ==
    \/ \E p \in ReplyPayloads : OnMessage(p)
    \/ \E r \in Reqs : TaskStart(r)
    \/ \E r \in Reqs : TaskReply(r)
    \/ \E r \in Reqs : Thread(r, {TRUE}, FairAnswers)
    \/ Shell(FairOutcomes)
    \/ ClientLoop
    \/ ConnectionLost(TRUE)

SpecReply ==
    /\ Init
    /\ [][NextReply]_vars
    /\ WF_vars(Shell(FairOutcomes))
    /\ WF_vars(ClientLoop)
    /\ \A r \in Reqs :
          /\ WF_vars(Moves(r, {TRUE}))
          /\ []<>(req[r].pc # "capture")
          /\ []<>(req[r].pc # "save")
          /\ WF_vars(TaskStart(r) \/ TaskReply(r))

\* the task of the request is over: the request was rejected as busy or as
\* malformed, or its execute call ended and the reply was built
Over(r) == req[r].st = "replied"

\* C32: a request is answered once: when its task is over, one reply has
\* gone out; a reply that has gone out is not followed by another one for
\* the request; a request that was taken in or whose execute call has ended
\* is answered in the end.
C32_ExactlyOneReply ==
    /\ [](\A r \in Reqs : Over(r) => req[r].reply.sent)
    /\ [][\A r \in Reqs :
             req[r].reply.sent => req'[r].reply = req[r].reply]_vars
    /\ \A r \in Reqs :
          (\/ req[r].st = "task" /\ Malformed(req[r].payload)
           \/ req[r].st = "thread" /\ req[r].pc = "done")
              ~> req[r].reply.sent

(***************************************************************************)
(* SpecThreads: a script whose two threads call term.execute("ls") on one  *)
(* TmuxTerminal, each thread one call after the other.                     *)
(***************************************************************************)
\* the calls that have not returned
Running == {r \in Reqs : req[r].st = "call"}

\* the thread that is not inside a call calls term.execute(p): the other
\* thread may be inside one
ThreadCall(p) ==
    /\ nextReq <= MaxReq
    /\ \A r, q \in Running : r = q
    /\ req' = [req EXCEPT ![nextReq] = [@ EXCEPT !.st = "call", !.payload = p,
                                                 !.pc = "check"]]
    /\ nextReq' = nextReq + 1
    /\ UNCHANGED <<pane, typed, shell, woken, is_running_cmd, command_counter,
                   last_output, epoch, issued, test_case,
                   rules, executor, client, relay>>

NextThreads ==
    \/ ThreadCall(PStr(CmdLs))
    \/ \E r \in Reqs : CallReturn(r)
    \/ \E r \in Reqs : Thread(r, {TRUE}, FairAnswers)
    \/ Shell(FairOutcomes)

SpecThreads == Init /\ [][NextThreads]_vars

(***************************************************************************)
(* An execute call that is turned away.                                    *)
(***************************************************************************)
\* C33: the step in which an execute call finds is_running_cmd set ends the
\* call and changes nothing else: the pane, the typed lines, the counter,
\* the stored result and the flag stay as they are, and the call has
\* written no command and has not taken the flag.
C33_BusyCallChangesNothing ==
    [][\A r \in Reqs :
          req[r].pc = "check" /\ is_running_cmd /\ req'[r] # req[r] =>
              /\ UNCHANGED <<pane, typed, shell, woken, command_counter,
                             last_output, issued, is_running_cmd>>
              /\ req'[r].pc = "done"
              /\ ~req'[r].held
              /\ req'[r].sent = <<>>
              /\ \A q \in Reqs \ {r} : req'[q] = req[q]]_vars

\* a call was turned away while the call that holds the flag is in flight
\* with its command written, and the flag is still set
C33_Witness ==
    \E r, q \in Reqs :
        /\ r # q
        /\ req[r].pc = "done" /\ ~req[r].held /\ req[r].ret = "None"
        /\ req[q].held /\ req[q].pc = "waiting"
        /\ is_running_cmd

(***************************************************************************)
(* WebSocketServer (websocket_server.py): one handle_client coroutine per  *)
(* connection, the registry connected_clients shared by all of them.       *)
(***************************************************************************)
client_vars == <<client>>

Ids == {"a", "b"}
Targets == Ids \cup {"Server"}

NotFoundText == "Error: Target client not found."
InvalidText == "Error: Invalid message format."
MissingIdText == "Error: Missing 'client_id' in identification message."

Welcome(id) == [kind |-> "welcome", s |-> id, text |-> ""]
\* json.dumps({"s": sender_id, "m": json.loads(text_message)})
Forwarded(sender_id) == [kind |-> "msg", s |-> sender_id, text |-> ""]
ErrorFrame(text) == [kind |-> "error", s |-> "", text |-> text]

\* del WebSocketServer.connected_clients[websocket]
Without(registry, c) == SelectSeq(registry, LAMBDA e : e.ws # c)

Registered(registry, c) == \E i \in 1..Len(registry) : registry[i].ws = c

\* the positions of the entries with the id, in the order of the iteration
EntriesOf(registry, id) == {i \in 1..Len(registry) : registry[i].id = id}

First(S) == CHOOSE i \in S : \A j \in S : i <= j

\* the loop of send_to_client and of send_error (lines 74-82, 89-96) over the
\* registry: the first entry with the id is sent to and the loop is left;
\* when that send raises ConnectionClosed the entry is deleted inside the
\* iteration, and the next step of the iteration over the dict that has
\* changed its size raises RuntimeError
SendToFirst(registry, conn, id) ==
    IF EntriesOf(registry, id) = {}
    THEN [out |-> "none", to |-> 0, registry |-> registry]
    ELSE LET e == registry[First(EntriesOf(registry, id))]
         IN IF conn[e.ws].st = "open"
            THEN [out |-> "sent", to |-> e.ws, registry |-> registry]
            ELSE [out |-> "raised", to |-> 0, registry |-> Without(registry, e.ws)]

\* the connection c receives the frame
Receives(conn, c, frame) == [conn EXCEPT ![c].rcvd = Append(@, frame)]

\* lines 44-48, and the server closing the connection of a handler that
\* ended with an exception
HandlerOver(conn, c) == [conn EXCEPT ![c].pc = "ended", ![c].st = "closed"]

\* a client connects: websockets.serve starts handle_client(websocket)
Accept(c) ==
    /\ relay.conn[c].st = "free"
    /\ \A k \in 1..(c - 1) : relay.conn[k].st # "free"
    /\ relay' = [relay EXCEPT !.conn[c] = [@ EXCEPT !.st = "open", !.pc = "recv_id"]]
    /\ UNCHANGED <<runner_vars, client_vars>>

\* lines 17-27: the identification message names client_id = id; the entry
\* is made and the welcome is sent
RecvId(c, id) ==
    /\ relay.conn[c].pc = "recv_id"
    /\ relay.conn[c].st = "open"
    /\ relay' = [relay EXCEPT
                    !.registry = Append(@, [ws |-> c, id |-> id]),
                    !.conn = Receives([relay.conn EXCEPT ![c].pc = "loop",
                                                         ![c].id = id],
                                      c, Welcome(id))]
    /\ UNCHANGED <<runner_vars, client_vars>>

\* lines 38-40: the identification message has no client_id; the error
\* text is sent and the connection is closed, no entry is made
RecvNoId(c) ==
    /\ relay.conn[c].pc = "recv_id"
    /\ relay.conn[c].st = "open"
    /\ relay' = [relay EXCEPT
                    !.conn = HandlerOver(Receives(relay.conn, c,
                                                  ErrorFrame(MissingIdText)), c)]
    /\ UNCHANGED <<runner_vars, client_vars>>

\* the peer of the connection goes away
Close(c) ==
    /\ relay.conn[c].st = "open"
    /\ relay' = [relay EXCEPT !.conn[c].st = "closed"]
    /\ UNCHANGED <<runner_vars, client_vars>>

\* lines 17, 30 and 42-48: recv or the iteration ends on the closed
\* connection, the finally block takes the entry out
HandlerEnds(c) ==
    /\ relay.conn[c].pc \in {"recv_id", "loop"}
    /\ relay.conn[c].st = "closed"
    /\ relay' = [relay EXCEPT !.registry = Without(@, c),
                              !.conn = HandlerOver(@, c)]
    /\ UNCHANGED <<runner_vars, client_vars>>

\* handle_message (lines 50-69) for a frame of the connection c that is a
\* JSON object; kind = "ok": target_id = t and message is a JSON text,
\* kind = "invalid": the message field is missing
HandleMessage(c, t, kind) ==
    /\ relay.conn[c].pc = "loop"
    /\ relay.conn[c].st = "open"
    /\ relay.handled < MaxMsgs
    /\ LET sender_id == relay.conn[c].id
           reg == relay.registry
           conn == relay.conn
           note == [relay EXCEPT !.handled = @ + 1,
                                 !.last = [c |-> c, t |-> t, kind |-> kind]]
           \* send_error(sender_id, text) after the registry became r
           Error(r, text) ==
               LET e == SendToFirst(r, conn, sender_id)
               IN IF e.out = "sent"
                  THEN [note EXCEPT !.registry = r,
                                    !.conn = Receives(conn, e.to, ErrorFrame(text))]
                  ELSE IF e.out = "none"
                  THEN [note EXCEPT !.registry = r]
                  ELSE [note EXCEPT !.registry = Without(e.registry, c),
                                    !.conn = HandlerOver(conn, c)]
       IN relay' =
            IF kind # "ok" THEN Error(reg, InvalidText)
            ELSE IF t = "Server" THEN note
            ELSE LET d == SendToFirst(reg, conn, t)
                 IN IF d.out = "sent"
                    THEN [note EXCEPT !.conn = Receives(conn, d.to, Forwarded(sender_id))]
                    ELSE IF d.out = "none"
                    THEN Error(reg, NotFoundText)
                    ELSE [note EXCEPT !.registry = Without(d.registry, c),
                                      !.conn = HandlerOver(conn, c)]
    /\ UNCHANGED <<runner_vars, client_vars>>

InitRelay ==
    /\ pane = <<Prompt>>
    /\ typed = <<>>
    /\ shell = IdleShell
    /\ woken = {}
    /\ is_running_cmd = FALSE
    /\ command_counter = 0
    /\ last_output = NoneVal
    /\ epoch = 0
    /\ req = [r \in Reqs |-> NewReq]
    /\ nextReq = MaxReq + 1
    /\ issued = <<>>
    /\ test_case = NoCase
    /\ rules = DefaultRules
    /\ executor = NoExecutor
    /\ client = NewClient
    /\ relay = NoRelay

NextRelay ==
    \/ \E c \in Conns : Accept(c)
    \/ \E c \in Conns, id \in Ids : RecvId(c, id)
    \/ \E c \in Conns : RecvNoId(c)
    \/ \E c \in Conns : Close(c)
    \/ \E c \in Conns : HandlerEnds(c)
    \/ \E c \in Conns, t \in Targets, kind \in {"ok", "invalid"} :
          HandleMessage(c, t, kind)

SpecRelay == InitRelay /\ [][NextRelay]_vars

\* the connections registered under the id
Under(id) == {relay.registry[i].ws : i \in EntriesOf(relay.registry, id)}

\* in this step the connection k gets the frame, and only k gets a frame
OnlyTo(k, frame) ==
    /\ relay'.conn[k].rcvd = Append(relay.conn[k].rcvd, frame)
    /\ \A j \in Conns \ {k} : relay'.conn[j].rcvd = relay.conn[j].rcvd

\* this step is handle_message for a well-formed frame {target_id, message}
Routed == relay'.handled = relay.handled + 1 /\ relay'.last.kind = "ok"

\* C34: a well-formed message of the identified client S for the target T
\* is delivered as {"s": S, "m": ...} to exactly one connection registered
\* under T and to no other; when none is registered under T nothing is
\* delivered and S gets the text "Error: Target client not found.".
C34_RoutedToTarget ==
    [][Routed =>
          LET sender_id == relay.conn[relay'.last.c].id
              target_id == relay'.last.t
          IN IF Under(target_id) # {}
             THEN \E k \in Under(target_id) : OnlyTo(k, Forwarded(sender_id))
             ELSE \E k \in Under(sender_id) : OnlyTo(k, ErrorFrame(NotFoundText))]_vars

\* C35: when the first connection registered under the target is closed,
\* the delivery takes its entry out of the registry, the sender stays
\* registered with its handler in its loop, and, no open target being
\* left, the sender gets the text "Error: Target client not found.".
C35_ClosedTargetRemoved ==
    [][/\ Routed
       /\ relay'.last.t # "Server"
       /\ EntriesOf(relay.registry, relay'.last.t) # {}
       /\ relay.conn[relay.registry[First(EntriesOf(relay.registry,
                                                   relay'.last.t))].ws].st = "closed"
       => LET c == relay'.last.c
              gone == relay.registry[First(EntriesOf(relay.registry,
                                                     relay'.last.t))].ws
          IN /\ ~Registered(relay'.registry, gone)
             /\ Registered(relay'.registry, c)
             /\ relay'.conn[c].pc = "loop"
             /\ relay'.conn[c].st = "open"
             /\ (\A k \in Under(relay'.last.t) : relay.conn[k].st = "closed")
                   => \E k \in Under(relay.conn[c].id) :
                          OnlyTo(k, ErrorFrame(NotFoundText))]_vars

====
